---- MODULE Spec2Model ----
(***************************************************************************)
(* ReciPick: URL recognition (parseUrl) and the metadata provider chains   *)
(* (fetchYouTubeMetadata, fetchInstagramMetadata, fetchTikTokMetadata).    *)
(*                                                                         *)
(* Two versions of the URL parser module exist in the repository:          *)
(*   "part_004"  : src/unnamed/part_004 (three chains, scraping tier)      *)
(*   "urlParser" : src/src/utils/urlParser.js (YouTube chain only)         *)
(* JavaScript strings are TLA+ strings.  undefined and null are the two    *)
(* sentinels Undefined and JsNull.                                         *)
(***************************************************************************)
EXTENDS Integers, Sequences, FiniteSets, TLC

----------------------------------------------------------------------------
(* JavaScript values *)

Undefined == "<undefined>"
JsNull == "<null>"

\* ToBoolean of a string-or-nullish value: undefined, null and '' are falsy.
Truthy(v) == v \notin {Undefined, JsNull, ""}

\* a || b
Or(a, b) == IF Truthy(a) THEN a ELSE b

\* obj.f : a property that is not there reads as undefined.
Get(obj, f) == IF f \in DOMAIN obj THEN obj[f] ELSE Undefined

Min(a, b) == IF a < b THEN a ELSE b

----------------------------------------------------------------------------
(* Strings *)

CharAt(s, i) == SubSeq(s, i, i)

UpperLetters == "ABCDEFGHIJKLMNOPQRSTUVWXYZ"
LowerLetters == "abcdefghijklmnopqrstuvwxyz"
Digits == "0123456789"

InStr(c, alphabet) == \E k \in 1..Len(alphabet) : CharAt(alphabet, k) = c

LowerChar(c) ==
    IF InStr(c, UpperLetters)
    THEN CharAt(LowerLetters, CHOOSE k \in 1..Len(UpperLetters) : CharAt(UpperLetters, k) = c)
    ELSE c

RECURSIVE ToLower(_)
ToLower(s) == IF s = "" THEN "" ELSE LowerChar(CharAt(s, 1)) \o ToLower(Tail(s))

\* String.prototype.substring(0, n)
Substring0(s, n) == SubSeq(s, 1, Min(n, Len(s)))

IsSpace(c) == c \in {" ", "\t", "\n", "\r"}

\* String.prototype.trim()
RECURSIVE TrimLeft(_)
TrimLeft(s) == IF s # "" /\ IsSpace(CharAt(s, 1)) THEN TrimLeft(Tail(s)) ELSE s

RECURSIVE TrimRight(_)
TrimRight(s) ==
    IF s # "" /\ IsSpace(CharAt(s, Len(s))) THEN TrimRight(SubSeq(s, 1, Len(s) - 1)) ELSE s

\* a parser that forgets to trim
TrimNone(s) == s

Trim(s) == TrimRight(TrimLeft(s))

\* caption.split('\n')[0]
FirstLine(s) ==
    IF \E k \in 1..Len(s) : CharAt(s, k) = "\n"
    THEN SubSeq(s, 1, (CHOOSE k \in 1..Len(s) :
                         CharAt(s, k) = "\n" /\ \A j \in 1..(k - 1) : CharAt(s, j) # "\n") - 1)
    ELSE s

----------------------------------------------------------------------------
(* Regular-expression pieces.  All four patterns carry the i flag: a       *)
(* literal matches whatever the letter case.  A failed match is 0 or       *)
(* NoMatch.                                                                *)

\* the literal lit (given in lower case) matches s at position p
LitAt(s, p, lit) ==
    /\ p >= 1
    /\ p + Len(lit) - 1 <= Len(s)
    /\ LowerChar(CharAt(s, p)) = CharAt(lit, 1)
    /\ ToLower(SubSeq(s, p, p + Len(lit) - 1)) = lit

\* position after the literal, or 0
AfterLit(s, p, lit) == IF p >= 1 /\ LitAt(s, p, lit) THEN p + Len(lit) ELSE 0

\* the character classes of the patterns
InClass(cls, c) ==
    CASE cls = "id" ->        \* [A-Za-z0-9_-]
           InStr(c, UpperLetters) \/ InStr(c, LowerLetters) \/ InStr(c, Digits) \/ c \in {"_", "-"}
      [] cls = "alnum" ->     \* [A-Za-z0-9]
           InStr(c, UpperLetters) \/ InStr(c, LowerLetters) \/ InStr(c, Digits)
      [] cls = "digit" ->     \* \d
           InStr(c, Digits)
      [] cls = "notSlash" ->  \* [^\/]
           c # "/"
      [] cls = "notSlashQuery" ->  \* [^\/\?]
           c \notin {"/", "?"}

\* the greedy run X+ from position p: the position after its last character (p if empty)
RECURSIVE RunEnd(_, _, _)
RunEnd(s, p, cls) ==
    IF p >= 1 /\ p <= Len(s) /\ InClass(cls, CharAt(s, p)) THEN RunEnd(s, p + 1, cls) ELSE p

\* An optional group (?:l1|l2)? applied to the candidate positions P (in the
\* order the matcher tries them): the group taken first, then skipped.
RECURSIVE Optional(_, _, _)
Optional(s, P, lits) ==
    IF P = <<>> THEN <<>>
    ELSE LET p == Head(P)
             taken == {AfterLit(s, p, l) : l \in lits} \ {0}
         IN  (IF taken = {} THEN <<>> ELSE <<CHOOSE q \in taken : TRUE>>)
             \o <<p>> \o Optional(s, Tail(P), lits)

SetMin(S) == CHOOSE x \in S : \A y \in S : x <= y

NoMatch == [matched |-> FALSE]

\* the value of a JavaScript expression that is null
NullValue == [null |-> TRUE]

----------------------------------------------------------------------------
(* URL_PATTERNS: the part of each pattern after its optional prefixes,     *)
(* matched at position q.  g1, g2, g3 are the capturing groups (Undefined  *)
(* for a group that took no part in the match).                            *)

\* the first result that matched, in the order the matcher tries them
FirstMatched(rs) ==
    LET hits == {k \in DOMAIN rs : rs[k].matched}
    IN  IF hits = {} THEN NoMatch ELSE rs[SetMin(hits)]

\* the one position of a set of at most one position, 0 for none
Only(ps) == IF ps \ {0} = {} THEN 0 ELSE CHOOSE x \in ps \ {0} : TRUE

\* a capturing group X+ from position c to before position e
Group(s, c, e) == SubSeq(s, c, e - 1)

\* X+ matched from c: e is the position after the run
RunMatched(c, e) == c # 0 /\ e > c

\* (reel|p)\/([A-Za-z0-9_-]+) after instagram.com/ at a, with the given alternative
InstagramAlt(s, a, b) ==
    LET c == AfterLit(s, b, "/")
    IN  IF RunMatched(c, RunEnd(s, c, "id"))
        THEN [matched |-> TRUE, g1 |-> Group(s, a, b), g2 |-> Group(s, c, RunEnd(s, c, "id")),
              g3 |-> Undefined]
        ELSE NoMatch

\* instagram\.com\/(reel|p)\/([A-Za-z0-9_-]+)
InstagramAfterHost(s, a) ==
    FirstMatched(<<InstagramAlt(s, a, AfterLit(s, a, "reel")),
                   InstagramAlt(s, a, AfterLit(s, a, "p"))>>)

InstagramBody(s, q) == InstagramAfterHost(s, AfterLit(s, q, "instagram.com/"))

\* one capturing group of the class cls from position c on
OneGroup(s, c, cls, e) ==
    IF RunMatched(c, e)
    THEN [matched |-> TRUE, g1 |-> Group(s, c, e), g2 |-> Undefined, g3 |-> Undefined]
    ELSE NoMatch

\* a pattern without the youtu.be alternative
YouTubeAfterHostNoShort(s, q, y) ==
    Only({AfterLit(s, y, "watch?v="), AfterLit(s, y, "shorts/")})

YouTubeAfterHost(s, q, y) ==
    Only({AfterLit(s, y, "watch?v="), AfterLit(s, y, "shorts/"), AfterLit(s, q, "youtu.be/")})

YouTubeId(s, c) == OneGroup(s, c, "id", RunEnd(s, c, "id"))

\* (?:youtube\.com\/(?:watch\?v=|shorts\/)|youtu\.be\/)([A-Za-z0-9_-]+)
YouTubeBody(s, q) == YouTubeId(s, YouTubeAfterHost(s, q, AfterLit(s, q, "youtube.com/")))

\* the short-link hosts of the TikTok pattern: (?:vm|vt) in part_004, vm in urlParser.js
TikTokShortHosts(file) ==
    IF file = "part_004" THEN {"vm.tiktok.com/", "vt.tiktok.com/"} ELSE {"vm.tiktok.com/"}

\* \/video\/(\d+) after the handle that runs from a to before h
TikTokVideo(s, a, h, v) ==
    IF RunMatched(v, RunEnd(s, v, "digit"))
    THEN [matched |-> TRUE, g1 |-> Group(s, a, h), g2 |-> Group(s, v, RunEnd(s, v, "digit")),
          g3 |-> Undefined]
    ELSE NoMatch

\* tiktok\.com\/@([^\/]+)\/video\/(\d+): the handle runs to the next slash
TikTokHandle(s, a, h) ==
    TikTokVideo(s, a, h, IF RunMatched(a, h) THEN AfterLit(s, h, "/video/") ELSE 0)

TikTokCanonical(s, a) == TikTokHandle(s, a, RunEnd(s, a, "notSlash"))

\* (?:vm|vt)\.tiktok\.com\/([A-Za-z0-9]+)
TikTokShort(s, c, f) == 
    IF RunMatched(c, f)
    THEN [matched |-> TRUE, g1 |-> Undefined, g2 |-> Undefined, g3 |-> Group(s, c, f)]
    ELSE NoMatch

TikTokShortAt(s, c) == TikTokShort(s, c, RunEnd(s, c, "alnum"))

\* (?:tiktok\.com\/@([^\/]+)\/video\/(\d+)|(?:vm|vt)\.tiktok\.com\/([A-Za-z0-9]+))
TikTokBody(file, s, q) ==
    FirstMatched(<<TikTokCanonical(s, AfterLit(s, q, "tiktok.com/@")),
                   TikTokShortAt(s, Only({AfterLit(s, q, host) : host \in TikTokShortHosts(file)}))>>)

NaverAfterHost(s, a) ==
    Only({AfterLit(s, AfterLit(s, a, "v"), "/"), AfterLit(s, AfterLit(s, a, "clip"), "/")})

NaverId(s, c) == OneGroup(s, c, "digit", RunEnd(s, c, "digit"))

\* naver\.com\/(?:v|clip)\/(\d+)
NaverBody(s, q) == NaverId(s, NaverAfterHost(s, AfterLit(s, q, "naver.com/")))

PatternBody(file, sourceName, s, q) ==
    CASE sourceName = "instagram" -> InstagramBody(s, q)
      [] sourceName = "youtube" -> YouTubeBody(s, q)
      [] sourceName = "tiktok" -> TikTokBody(file, s, q)
      [] sourceName = "naver" -> NaverBody(s, q)

\* the optional prefixes of a pattern: the positions its body is tried at when the
\* match starts at p, in the matcher's order
PatternPrefixes(sourceName, s, p) ==
    IF sourceName = "naver"
    THEN Optional(s, Optional(s, Optional(s, <<p>>, {"https://", "http://"}), {"m."}), {"tv."})
    ELSE Optional(s, Optional(s, <<p>>, {"https://", "http://"}), {"www."})

PatternAmong(file, sourceName, s, cands) ==
    FirstMatched([k \in DOMAIN cands |-> PatternBody(file, sourceName, s, cands[k])])

\* the pattern tried with the match starting at p
PatternAt(file, sourceName, s, p) ==
    PatternAmong(file, sourceName, s, PatternPrefixes(sourceName, s, p))

\* String.prototype.match(config.pattern): the leftmost match
URL_PATTERNS(file, sourceName, s) ==
    FirstMatched([p \in 1..Len(s) |-> PatternAt(file, sourceName, s, p)])

ProfileSegment(s, a, e) ==
    IF RunMatched(a, e) THEN [matched |-> TRUE, g1 |-> Group(s, a, e)] ELSE NoMatch

ProfileAt(s, a) == ProfileSegment(s, a, RunEnd(s, a, "notSlashQuery"))

\* trimmedUrl.match(config.profilePattern): /instagram\.com\/([^\/\?]+)/i
ProfilePattern(s) ==
    FirstMatched([p \in 1..Len(s) |-> ProfileAt(s, AfterLit(s, p, "instagram.com/"))])

SourceNames == <<"instagram", "youtube", "tiktok", "naver">>

SourceLabel(sourceName) ==
    CASE sourceName = "instagram" -> "Instagram"
      [] sourceName = "youtube" -> "YouTube"
      [] sourceName = "tiktok" -> "TikTok"
      [] sourceName = "naver" -> "Naver"

YouTubeThumbnail(videoId) == "https://img.youtube.com/vi/" \o videoId \o "/maxresdefault.jpg"

\* a thumbnail formula applied to every platform
getThumbnailUrlAny(source, videoId) ==
    IF ~Truthy(videoId) THEN JsNull ELSE YouTubeThumbnail(videoId)

getThumbnailUrl(source, videoId) ==
    IF ~Truthy(videoId) THEN JsNull
    ELSE IF source = "youtube" THEN YouTubeThumbnail(videoId)
    ELSE JsNull

\* The word between the label and the date is the Hangul word for "recipe" in
\* the source; it is written in Latin letters here.
SuggestedTitle(label, today) ==
    label \o " resipi (" \o ToString(today[1]) \o "/" \o ToString(today[2]) \o ")"

\* isTempTitle: part_004 excludes youtube and instagram, urlParser.js only youtube
IsTempTitle(file, sourceName) ==
    IF file = "part_004" THEN sourceName \notin {"youtube", "instagram"}
    ELSE sourceName # "youtube"

\* a handle taken from the match without the "@" put before it
CreatorHandleBare(sourceName, match, profileMatch) ==
    CASE sourceName = "instagram" ->
           IF profileMatch.matched /\ profileMatch.g1 # "reel" /\ profileMatch.g1 # "p"
           THEN profileMatch.g1 ELSE ""
      [] sourceName = "tiktok" -> IF Truthy(match.g1) THEN match.g1 ELSE ""
      [] OTHER -> ""

\* lines 430-446: the identifiers parseUrl takes from the match of sourceName
CreatorHandle(sourceName, match, profileMatch) ==
    CASE sourceName = "instagram" ->
           IF profileMatch.matched /\ profileMatch.g1 # "reel" /\ profileMatch.g1 # "p"
           THEN "@" \o profileMatch.g1 ELSE ""
      [] sourceName = "tiktok" -> IF Truthy(match.g1) THEN "@" \o match.g1 ELSE ""
      [] OTHER -> ""

VideoIdOf(sourceName, match) ==
    CASE sourceName = "instagram" -> match.g2
      [] sourceName = "tiktok" -> Or(match.g2, Or(match.g3, ""))
      [] OTHER -> match.g1

\* lines 458-467
Classification(file, trimmedUrl, sourceName, videoId, creatorHandle, today) ==
    [url |-> trimmedUrl,
     source |-> sourceName,
     sourceLabel |-> SourceLabel(sourceName),
     videoId |-> videoId,
     creatorHandle |-> creatorHandle,
     suggestedTitle |-> SuggestedTitle(SourceLabel(sourceName), today),
     isTempTitle |-> IsTempTitle(file, sourceName),
     thumbnail |-> getThumbnailUrl(sourceName, videoId)]

\* a loop that keeps the last pattern that matches instead of returning at the first
ParseMatchedLast(file, trimmedUrl, matches, profileMatch, today) ==
    LET hits == {k \in DOMAIN matches : matches[k].matched}
        last == CHOOSE k \in hits : \A j \in hits : j <= k
    IN  IF hits = {} THEN NullValue
        ELSE Classification(file, trimmedUrl, SourceNames[last],
                            VideoIdOf(SourceNames[last], matches[last]),
                            CreatorHandle(SourceNames[last], matches[last], profileMatch),
                            today)

\* the body of the loop over URL_PATTERNS, for the first pattern that matches:
\* matches[k] is the match of the k-th pattern
ParseMatched(file, trimmedUrl, matches, profileMatch, today) ==
    LET hits == {k \in DOMAIN matches : matches[k].matched}
    IN  IF hits = {} THEN NullValue
        ELSE Classification(file, trimmedUrl, SourceNames[SetMin(hits)],
                            VideoIdOf(SourceNames[SetMin(hits)], matches[SetMin(hits)]),
                            CreatorHandle(SourceNames[SetMin(hits)], matches[SetMin(hits)],
                                          profileMatch),
                            today)

\* a parser that stores the URL in lower case in the Classification
ParseTrimmedLowerUrl(file, trimmedUrl, today) ==
    ParseMatched(file, ToLower(trimmedUrl),
                 [k \in DOMAIN SourceNames |-> URL_PATTERNS(file, SourceNames[k], trimmedUrl)],
                 ProfilePattern(trimmedUrl), today)

\* lines 425-471: the loop over URL_PATTERNS applied to the trimmed string
ParseTrimmed(file, trimmedUrl, today) ==
    ParseMatched(file, trimmedUrl,
                 [k \in DOMAIN SourceNames |-> URL_PATTERNS(file, SourceNames[k], trimmedUrl)],
                 ProfilePattern(trimmedUrl), today)

\* today is <<month, day>> of the local date: getMonth() + 1 and getDate()
parseUrl(file, url, today) ==
    IF ~Truthy(url) THEN NullValue ELSE ParseTrimmed(file, Trim(url), today)

\* a validity test that only looks whether a string was given
isValidUrlOfTruthy(file, url, today) == Truthy(url)

\* parseUrl(url) !== null
isValidUrl(file, url, today) == parseUrl(file, url, today) # NullValue

----------------------------------------------------------------------------
(* Response bodies.  A parsed JSON body is a record with a shape:          *)
(*   "null"        JSON null (or another falsy value)                      *)
(*   "emptyArray"  []                                                      *)
(*   "object"      a JSON object, its properties in fields                 *)
(*   "array"       a non-empty array, its first element in item            *)
(*                 (NullValue for [null])                                  *)
(* Nested properties are flattened: "authorMeta.name" is item.authorMeta   *)
(* ?.name.                                                                 *)

\* an exception raised while a tier's code runs (a rejected fetch, a rejected
\* response.json(), a TypeError on a missing property)
Threw == [threw |-> TRUE]

NoFields == [f \in {} |-> ""]

\* String(v) inside a template literal
JsToString(v) ==
    IF v = JsNull THEN "null" ELSE IF v = Undefined THEN "undefined" ELSE v

\* webVideoUrl.split('/').pop()
LastSegment(s) ==
    IF \E k \in 1..Len(s) : CharAt(s, k) = "/"
    THEN SubSeq(s, (CHOOSE k \in 1..Len(s) :
                      CharAt(s, k) = "/" /\ \A j \in (k + 1)..Len(s) : CharAt(s, j) # "/") + 1,
                Len(s))
    ELSE s

TitleLimit == 100

----------------------------------------------------------------------------
(* fetchInstagramMetadata *)

InstagramMediaUrl(postId) == "https://www.instagram.com/p/" \o postId \o "/media/?size=l"

\* lines 97-121: what the scraping tier makes of a parsed body
ApifyInstagram(data, postId) ==
    IF data.shape # "array" THEN NullValue
    ELSE IF data.item = NullValue THEN Threw
    ELSE
      LET item == data.item
          caption == Or(Get(item, "caption"), "")
          ownerUsername == Or(Get(item, "ownerUsername"), "")
          displayUrl == Or(Get(item, "displayUrl"), Get(item, "thumbnailUrl"))
      IN  [title |-> IF Truthy(caption) THEN Substring0(FirstLine(caption), TitleLimit)
                     ELSE "Instagram Post by " \o Or(ownerUsername, "Unknown"),
           description |-> caption,
           authorName |-> IF Truthy(ownerUsername) THEN "@" \o ownerUsername ELSE "",
           thumbnail |-> Or(displayUrl, InstagramMediaUrl(postId)),
           source |-> "instagram"]

\* lines 129-137
InstagramFallback(postId) ==
    [title |-> "Instagram Post (" \o postId \o ")",
     description |-> "",
     authorName |-> "",
     thumbnail |-> InstagramMediaUrl(postId),
     source |-> "instagram"]

----------------------------------------------------------------------------
(* fetchTikTokMetadata *)

\* lines 363-403
ApifyTikTok(data) ==
    IF data.shape # "array" THEN NullValue
    ELSE IF data.item = NullValue THEN Threw
    ELSE
      LET item == data.item
          title == Or(Get(item, "text"), Or(Get(item, "desc"), "TikTok Video"))
          author == Or(Get(item, "authorMeta.name"),
                       Or(Get(item, "authorMeta.nickName"), Or(Get(item, "author"), "")))
          description == Or(Get(item, "text"), "")
          thumbnail == Or(Get(item, "videoMeta.coverUrl"),
                          Or(Get(item, "imageUrl"), Or(Get(item, "video.cover"), "")))
          canonicalVideoId ==
              Or(Get(item, "id"),
                 IF Truthy(Get(item, "webVideoUrl"))
                 THEN LastSegment(Get(item, "webVideoUrl")) ELSE JsNull)
          canonicalUrl ==
              Or(Get(item, "webVideoUrl"),
                 "https://www.tiktok.com/@" \o author \o "/video/" \o JsToString(canonicalVideoId))
      IN  [title |-> Substring0(title, TitleLimit),
           description |-> description,
           authorName |-> IF Truthy(author) THEN "@" \o author ELSE "",
           thumbnail |-> thumbnail,
           source |-> "tiktok",
           videoId |-> canonicalVideoId,
           canonicalUrl |-> canonicalUrl,
           originalData |-> item]

\* lines 329-336 and 409-416: parsed?.suggestedTitle || 'TikTok Video', ...
TikTokFallbackOf(parsed) ==
    [title |-> IF parsed = NullValue THEN "TikTok Video"
               ELSE Or(parsed.suggestedTitle, "TikTok Video"),
     description |-> "",
     authorName |-> IF parsed = NullValue THEN "" ELSE Or(parsed.creatorHandle, ""),
     thumbnail |-> "",
     source |-> "tiktok"]

TikTokFallback(url, today) == TikTokFallbackOf(parseUrl("part_004", url, today))

----------------------------------------------------------------------------
(* fetchYouTubeMetadata and its tiers *)

INVIDIOUS_INSTANCES ==
    <<"https://inv.tux.pizza", "https://invidious.jing.rocks", "https://vid.puffyan.us",
      "https://inv.bp.projectsegfau.lt", "https://invidious.nerdvpn.de">>

\* the per-instance timeout of fetchFromInvidious, in time units (2000 ms)
InvidiousTimeout == 2

\* a scraping tier that looks at the item's title only, not at its error field
ApifyYouTubeIgnoresError(data, videoId) ==
    IF data.shape # "array" THEN NullValue
    ELSE IF data.item = NullValue THEN Threw
    ELSE
      LET item == data.item
      IN  IF ~Truthy(Get(item, "title")) THEN NullValue
          ELSE [title |-> item.title,
                description |-> Or(Get(item, "description"), Or(Get(item, "text"), "")),
                authorName |-> Or(Get(item, "channelName"), Or(Get(item, "author"), "")),
                thumbnail |-> Or(Get(item, "thumbnailUrl"), YouTubeThumbnail(videoId)),
                source |-> "apify_youtube"]

\* lines 260-285
ApifyYouTube(data, videoId) ==
    IF data.shape # "array" THEN NullValue
    ELSE IF data.item = NullValue THEN Threw
    ELSE
      LET item == data.item
      IN  IF Truthy(Get(item, "error")) \/ ~Truthy(Get(item, "title")) THEN NullValue
          ELSE [title |-> item.title,
                description |->
                    Or(Get(item, "description"), Or(Get(item, "text"),
                    Or(Get(item, "shortDescription"), Or(Get(item, "metaDescription"),
                    Or(Get(item, "videoDescription"), Or(Get(item, "desc"), "")))))),
                authorName |->
                    Or(Get(item, "channelName"), Or(Get(item, "author"),
                    Or(Get(item, "channelTitle"), Or(Get(item, "uploader"), "")))),
                thumbnail |-> Or(Get(item, "thumbnailUrl"), YouTubeThumbnail(videoId)),
                source |-> "apify_youtube"]

\* the catch clause of a scraping tier (lines 122-124, 286-288, 404-406): the
\* exception is logged and the function goes on to what follows the try
ApifyCatch(v) == IF v = Threw THEN NullValue ELSE v

\* fetchFromInvidious, lines 169-171: the catch clause goes on to the next instance
InvidiousCatch(v) == IF v = Threw THEN NullValue ELSE v

\* if (invidiousData): a parsed body that is an object or an array is truthy
InvidiousUsable(data) == data # NullValue /\ data.shape # "null"

\* { ...invidiousData, source: 'invidious' }
InvidiousResult(data) ==
    LET fields == IF data.shape = "object" THEN data.fields ELSE NoFields
    IN  [f \in DOMAIN fields \cup {"source"} |->
            IF f = "source" THEN "invidious" ELSE fields[f]]

\* fetchFromYouTubeAPI, lines 188-197.  data.fields.items is the items array, each
\* item a record that may hold a snippet.
YouTubeAPIData(data, videoId) ==
    IF data.shape = "null" THEN Threw
    ELSE IF data.shape # "object" THEN NullValue
    ELSE IF "items" \notin DOMAIN data.fields THEN NullValue
    ELSE IF Len(data.fields.items) = 0 THEN NullValue
    ELSE IF "snippet" \notin DOMAIN data.fields.items[1] THEN Threw
    ELSE
      LET snippet == data.fields.items[1].snippet
      IN  [title |-> Get(snippet, "title"),
           authorName |-> Get(snippet, "channelTitle"),
           description |-> Get(snippet, "description"),
           thumbnail |-> Or(Get(snippet, "thumbnails.maxres.url"),
                            Or(Get(snippet, "thumbnails.high.url"), YouTubeThumbnail(videoId)))]

\* fetchFromYouTubeAPI, lines 198-201
YouTubeAPICatch(v) == IF v = Threw THEN NullValue ELSE v

\* an embed-info tier that copies the remote title into the description
OEmbedDataWithDescription(data, videoId) ==
    IF data.shape = "null" THEN Threw
    ELSE
      LET fields == IF data.shape = "object" THEN data.fields ELSE NoFields
      IN  [title |-> Or(Get(fields, "title"), JsNull),
           authorName |-> Or(Get(fields, "author_name"), JsNull),
           description |-> Or(Get(fields, "title"), ""),
           thumbnail |-> Or(Get(fields, "thumbnail_url"), YouTubeThumbnail(videoId))]

\* fetchFromOEmbed, lines 215-221
OEmbedData(data, videoId) ==
    IF data.shape = "null" THEN Threw
    ELSE
      LET fields == IF data.shape = "object" THEN data.fields ELSE NoFields
      IN  [title |-> Or(Get(fields, "title"), JsNull),
           authorName |-> Or(Get(fields, "author_name"), JsNull),
           description |-> "",
           thumbnail |-> Or(Get(fields, "thumbnail_url"), YouTubeThumbnail(videoId))]

\* fetchFromOEmbed without its try statement
OEmbedNoCatch(v) == v

\* fetchFromOEmbed, lines 222-224
OEmbedCatch(v) == IF v = Threw THEN NullValue ELSE v

\* { ...apiData, source: 'youtube_api' } and { ...oEmbedData, source: 'oembed' }
WithSource(data, source) ==
    [f \in DOMAIN data \cup {"source"} |-> IF f = "source" THEN source ELSE data[f]]

----------------------------------------------------------------------------
(* One call of a chain.                                                    *)
(*   call      the arguments: file, platform, videoId (the Instagram post  *)
(*             id too), url, youtubeApiKey, apifyApiToken, and today, the  *)
(*             local date parseUrl reads                                   *)
(*   pc        where the call is suspended: "start", "<tier>_fetch" (await *)
(*             fetch), "<tier>_json" (await response.json()), "done"       *)
(*   i         the Invidious instance of the current loop iteration        *)
(*   elapsed   time units since the current instance's timer was armed     *)
(*   timers    the instances whose setTimeout is armed                     *)
(*   fired     a timer has fired after its own iteration was over          *)
(*   requests  the requests issued so far, in order, each with its outcome *)
(*             "pending", "failed" (no parsed body: rejected, aborted, a   *)
(*             non-success status, or a body that is not JSON), "unusable" *)
(*             or "usable" (a parsed body the tier could not or could use) *)
(*             and the parsed body                                         *)
(*   badJson   some response so far had a body that was not JSON           *)
(*   ret       "running", "returned" or "raised"; result the value returned*)
(* The synchronous functions parseUrl and isValidUrl applied to one string: *)
(*   input     the argument: file, today, and the string, written as the   *)
(*             text between its leading and trailing white space           *)
(*   called    which of the functions have run                             *)
(*   parsed    what parseUrl returned; valid what isValidUrl returned      *)
(*   reparsed  what two further calls of parseUrl returned: ofUrl for the  *)
(*             url of the Classification in parsed, ofInput for the same   *)
(*             string again                                                *)
(* The registry functions, their argument in input.text:                   *)
(*   info      what getSourceInfo returned                                 *)
(*   sources   what getSupportedSources returned                           *)

(* The store, App and the favorites page; the TikTok embed: see their       *)
(* sections.                                                               *)

VARIABLES call, pc, i, elapsed, timers, fired, requests, badJson, result, ret,
          input, called, parsed, valid, info, sources, reparsed,
          store, isLoaded, rendered, effects, storage, storageLog,
          currentPage, selectedRecipe, selectedCreator,
          embedProps, retryCount, runs, intervalId, ticks, clearedBy, scriptPresent

chainVars == <<call, pc, i, elapsed, timers, fired, requests, badJson, result, ret>>

parserVars == <<input, called, parsed, valid, info, sources, reparsed>>

appVars == <<store, isLoaded, rendered, effects, storage, storageLog,
             currentPage, selectedRecipe, selectedCreator>>

embedVars == <<embedProps, retryCount, runs, intervalId, ticks, clearedBy, scriptPresent>>

uiVars == <<appVars, embedVars>>

vars == <<chainVars, parserVars, uiVars>>

\* no component is mounted
AppIdle ==
    /\ store = [null |-> TRUE]
    /\ isLoaded = FALSE
    /\ rendered = [null |-> TRUE]
    /\ effects = <<>>
    /\ storage = [kind |-> "none"]
    /\ storageLog = <<>>
    /\ currentPage = "none"
    /\ selectedRecipe = [null |-> TRUE]
    /\ selectedCreator = "<null>"

EmbedIdle ==
    /\ embedProps = [null |-> TRUE]
    /\ retryCount = 0
    /\ runs = 0
    /\ intervalId = 0
    /\ ticks = 0
    /\ clearedBy = "none"
    /\ scriptPresent = FALSE

UiIdle == AppIdle /\ EmbedIdle

\* how far elapsed is followed
MaxElapsed == 3

Dates == {<<11, 4>>, <<1, 31>>}
\* the chains other than TikTok's never read the date
OneDate == {<<11, 4>>}

VideoIds == {"dQw4w9WgXcQ"}
PostIds == {"ABC123"}
TikTokUrls ==
    {"https://www.tiktok.com/@chef.kim/video/7123456789012345678",
     " https://vt.tiktok.com/ZS8abcd/",
     "https://example.com/foo"}
Tokens == {JsNull, "", "apify_api_token"}
ApiKeys == {JsNull, "AIzaKey"}

LongCaption ==
    "0123456789012345678901234567890123456789012345678901234567890123456789"
    \o "012345678901234567890123456789 and the rest"

Calls ==
    [file : {"part_004"}, platform : {"youtube"}, videoId : VideoIds, url : {""},
     youtubeApiKey : ApiKeys, apifyApiToken : Tokens, today : OneDate]
    \cup
    [file : {"urlParser"}, platform : {"youtube"}, videoId : VideoIds, url : {""},
     youtubeApiKey : ApiKeys, apifyApiToken : {JsNull}, today : OneDate]
    \cup
    [file : {"part_004"}, platform : {"instagram"}, videoId : PostIds, url : {""},
     youtubeApiKey : {JsNull}, apifyApiToken : Tokens, today : OneDate]
    \cup
    [file : {"part_004"}, platform : {"tiktok"}, videoId : {""}, url : TikTokUrls,
     youtubeApiKey : {JsNull}, apifyApiToken : Tokens, today : Dates]

Object(fields) == [shape |-> "object", fields |-> fields]
Array(item) == [shape |-> "array", item |-> item]

\* bodies every endpoint may answer with
CommonBodies == {[shape |-> "null"], [shape |-> "emptyArray"], Object(NoFields)}

ApifyBodies(platform) ==
    CommonBodies \cup {Array(NullValue)} \cup
    CASE platform = "youtube" ->
           {Array([title |-> "Kimchi stew", description |-> "Boil it", channelName |-> "chef",
                   thumbnailUrl |-> "https://i.ytimg.com/vi/a.jpg"]),
            Array([title |-> "Bibimbap", text |-> "Mix it", uploader |-> "cook"]),
            Array([title |-> LongCaption, author |-> "chef"]),
            Array([error |-> "blocked", title |-> "Kimchi stew"]),
            Array([description |-> "Boil it"])}
      [] platform = "instagram" ->
           {Array([caption |-> "Tteokbokki\nspicy rice cake", ownerUsername |-> "chef.kim",
                   displayUrl |-> "https://cdn.example/x.jpg"]),
            Array([caption |-> LongCaption, thumbnailUrl |-> "https://cdn.example/t.jpg"]),
            Array([ownerUsername |-> "chef.kim"]),
            Array([id |-> "1"])}
      [] platform = "tiktok" ->
           {Array([text |-> "Gimbap roll", id |-> "7123456789012345678",
                   webVideoUrl |-> "https://www.tiktok.com/@chef.kim/video/7123456789012345678"]
                  @@ ("authorMeta.name" :> "chef.kim")
                  @@ ("videoMeta.coverUrl" :> "https://cdn.example/c.jpg")),
            Array([desc |-> LongCaption, author |-> "cook",
                   webVideoUrl |-> "https://www.tiktok.com/@cook/video/7000000000000000001"]),
            Array([text |-> "Gimbap roll", webVideoUrl |-> "https://www.tiktok.com/@cook/video/7000000000000000001/"]),
            Array([imageUrl |-> "https://cdn.example/i.jpg"]),
            Array([text |-> "Gimbap roll", id |-> "7123456789012345678", author |-> "cook"]),
            Array([text |-> "Gimbap roll", id |-> "7123456789012345678"])}

InvidiousBodies ==
    CommonBodies \cup
    {Object([title |-> "Kimchi stew", author |-> "chef", description |-> "Boil it",
             videoId |-> "dQw4w9WgXcQ"]),
     Object([error |-> "Video unavailable"])}

YouTubeAPIBodies ==
    CommonBodies \cup
    {Object([items |-> <<>>]),
     Object([items |-> <<[kind |-> "youtube#video"]>>]),
     Object([items |-> <<[snippet |-> [title |-> "Kimchi stew", channelTitle |-> "chef",
                                       description |-> "Boil it"]
                                      @@ ("thumbnails.high.url" :> "https://i.ytimg.com/vi/h.jpg")]>>]),
     Object([items |-> <<[snippet |-> [channelTitle |-> "chef"]]>>])}

OEmbedBodies ==
    CommonBodies \cup
    {Object([title |-> "Kimchi stew", author_name |-> "chef",
             thumbnail_url |-> "https://i.ytimg.com/vi/o.jpg"]),
     Object([author_name |-> "chef"])}

Bodies(tier, platform) ==
    CASE tier = "apify" -> ApifyBodies(platform)
      [] tier = "invidious" -> InvidiousBodies
      [] tier = "youtube_api" -> YouTubeAPIBodies
      [] tier = "oembed" -> OEmbedBodies

\* the tier whose request the call is waiting on
TierOf(p) ==
    CASE p \in {"apify_fetch", "apify_json"} -> "apify"
      [] p \in {"invidious_fetch", "invidious_json"} -> "invidious"
      [] p \in {"youtube_api_fetch", "youtube_api_json"} -> "youtube_api"
      [] p \in {"oembed_fetch", "oembed_json"} -> "oembed"
      [] OTHER -> "none"

AwaitingFetch == pc \in {"apify_fetch", "invidious_fetch", "youtube_api_fetch", "oembed_fetch"}
AwaitingJson == pc \in {"apify_json", "invidious_json", "youtube_api_json", "oembed_json"}

St == [pc |-> pc, i |-> i, elapsed |-> elapsed, timers |-> timers, fired |-> fired,
       requests |-> requests, badJson |-> badJson, result |-> result, ret |-> ret]

Become(st) ==
    /\ pc' = st.pc
    /\ i' = st.i
    /\ elapsed' = st.elapsed
    /\ timers' = st.timers
    /\ fired' = st.fired
    /\ requests' = st.requests
    /\ badJson' = st.badJson
    /\ result' = st.result
    /\ ret' = st.ret
    /\ UNCHANGED <<call, input, called, parsed, valid, info, sources, reparsed>>
    /\ UNCHANGED uiVars

\* fetch(...): the request leaves and the call is suspended on it
Issue(st, tier, mirror) ==
    [st EXCEPT !.requests = Append(@, [tier |-> tier, mirror |-> mirror,
                                       outcome |-> "pending", data |-> NullValue]),
               !.pc = tier \o "_fetch"]

\* the request the call was waiting on is over
Settle(st, outcome, data) ==
    [st EXCEPT !.requests[Len(st.requests)] = [@ EXCEPT !.outcome = outcome, !.data = data]]

Return(st, v) == [st EXCEPT !.pc = "done", !.ret = "returned", !.result = v]

\* an exception leaves the exported function
Raise(st) == [st EXCEPT !.pc = "done", !.ret = "raised"]

----------------------------------------------------------------------------
(* The chains: what each function does between two awaits.                 *)

\* a chain that calls the scraping service whether or not a token was supplied
ApifyAlways(apifyApiToken) == TRUE

\* if (apifyApiToken), lines 72 and 236; if (!apifyApiToken), line 326
ApifyEnabled(apifyApiToken) == Truthy(apifyApiToken)

\* a chain that never tries the official API
YouTubeAPINever(youtubeApiKey) == FALSE

\* if (youtubeApiKey), line 300
YouTubeAPIEnabled(youtubeApiKey) == Truthy(youtubeApiKey)

\* a chain that asks the embed-info endpoint a second time when the first answer
\* was unusable
OEmbedDoneRetry(st, v) ==
    IF v = Threw THEN Raise(st)
    ELSE IF v # NullValue THEN Return(st, WithSource(v, "oembed"))
    ELSE IF Cardinality({k \in DOMAIN st.requests : st.requests[k].tier = "oembed"}) < 2
    THEN Issue(st, "oembed", 0)
    ELSE Return(st, NullValue)

\* lines 309-318: the value fetchFromOEmbed returned
OEmbedDone(st, v) ==
    IF v = Threw THEN Raise(st)
    ELSE IF v # NullValue THEN Return(st, WithSource(v, "oembed"))
    ELSE Return(st, NullValue)

\* line 311
TryOEmbed(st) == Issue(st, "oembed", 0)

\* a chain that goes on to the embed-info endpoint although the official API answered
YouTubeAPIDoneNoStop(st, v) ==
    IF v = Threw THEN Raise(st) ELSE TryOEmbed(st)

\* lines 302-306: the value fetchFromYouTubeAPI returned
YouTubeAPIDone(st, v) ==
    IF v = Threw THEN Raise(st)
    ELSE IF v # NullValue THEN Return(st, WithSource(v, "youtube_api"))
    ELSE TryOEmbed(st)

\* line 302 and fetchFromYouTubeAPI up to its fetch: if (!apiKey) return null
TryYouTubeAPI(st) ==
    IF ~Truthy(call.youtubeApiKey) THEN YouTubeAPIDone(st, NullValue)
    ELSE Issue(st, "youtube_api", 0)

\* a chain that prefers the official API to a mirror's answer when a key was supplied
InvidiousDonePrefersAPI(st, v) ==
    IF v = Threw THEN Raise(st)
    ELSE IF YouTubeAPIEnabled(call.youtubeApiKey) THEN TryYouTubeAPI(st)
    ELSE IF InvidiousUsable(v) THEN Return(st, InvidiousResult(v))
    ELSE TryOEmbed(st)

\* lines 294-307: the value fetchFromInvidious returned
InvidiousDone(st, v) ==
    IF v = Threw THEN Raise(st)
    ELSE IF InvidiousUsable(v) THEN Return(st, InvidiousResult(v))
    ELSE IF YouTubeAPIEnabled(call.youtubeApiKey) THEN TryYouTubeAPI(st)
    ELSE TryOEmbed(st)

\* a loop that does not await an instance before it starts the next one: the requests
\* of instances j and j + 1 leave together
InvidiousLoopEager(st, j) ==
    IF j < Len(INVIDIOUS_INSTANCES)
    THEN Issue(Issue([st EXCEPT !.i = j + 1, !.elapsed = 0, !.timers = @ \cup {j, j + 1}],
                     "invidious", j),
               "invidious", j + 1)
    ELSE IF j = Len(INVIDIOUS_INSTANCES)
    THEN Issue([st EXCEPT !.i = j, !.elapsed = 0, !.timers = @ \cup {j}], "invidious", j)
    ELSE InvidiousDone([st EXCEPT !.i = j], NullValue)

\* for (const base of INVIDIOUS_INSTANCES), lines 156-163 and 173: iteration j arms
\* its timer and issues its request; past the last instance the function returns null
InvidiousLoop(st, j) ==
    IF j <= Len(INVIDIOUS_INSTANCES)
    THEN Issue([st EXCEPT !.i = j, !.elapsed = 0, !.timers = @ \cup {j}], "invidious", j)
    ELSE InvidiousDone([st EXCEPT !.i = j], NullValue)

\* the iteration of instance st.i is over without a return: v is what its catch
\* clause made of the exception, NullValue after a non-success status
InvidiousNext(st, v) ==
    IF v = Threw THEN Raise(st) ELSE InvidiousLoop(st, st.i + 1)

\* what follows the scraping tier when it produced nothing
AfterApify(st) ==
    CASE call.platform = "youtube" -> InvidiousLoop(st, 1)
      [] call.platform = "instagram" -> Return(st, InstagramFallback(call.videoId))
      [] call.platform = "tiktok" -> Return(st, TikTokFallback(call.url, call.today))

\* v is what the scraping tier's try statement produced
ApifyDone(st, v) ==
    IF v = Threw THEN Raise(st)
    ELSE IF v # NullValue THEN Return(st, v)
    ELSE AfterApify(st)

\* the function up to its first await
Enter(st) ==
    IF call.file = "part_004" /\ ApifyEnabled(call.apifyApiToken) THEN Issue(st, "apify", 0)
    ELSE AfterApify(st)

\* the tier's own code applied to a parsed body
TierData(tier, data) ==
    CASE tier = "apify" ->
           (CASE call.platform = "youtube" -> ApifyYouTube(data, call.videoId)
              [] call.platform = "instagram" -> ApifyInstagram(data, call.videoId)
              [] call.platform = "tiktok" -> ApifyTikTok(data))
      [] tier = "invidious" -> data
      [] tier = "youtube_api" -> YouTubeAPIData(data, call.videoId)
      [] tier = "oembed" -> OEmbedData(data, call.videoId)

\* the tier's catch clause
TierCatch(tier, v) ==
    CASE tier = "apify" -> ApifyCatch(v)
      [] tier = "invidious" -> InvidiousCatch(v)
      [] tier = "youtube_api" -> YouTubeAPICatch(v)
      [] tier = "oembed" -> OEmbedCatch(v)

\* the chain goes on with the value v the tier produced
TierDone(tier, st, v) ==
    CASE tier = "apify" -> ApifyDone(st, v)
      [] tier = "invidious" -> InvidiousDone(st, v)
      [] tier = "youtube_api" -> YouTubeAPIDone(st, v)
      [] tier = "oembed" -> OEmbedDone(st, v)

\* the tier's attempt ended with the exception or the empty value v (after its catch
\* clause): the Invidious loop goes to its next instance, the other tiers are over
TierFailed(tier, st, v) ==
    IF tier = "invidious" THEN InvidiousNext(st, v) ELSE TierDone(tier, st, v)

\* whether the chain may use what a tier produced
Usable(tier, v) ==
    IF tier = "invidious" THEN InvidiousUsable(v) ELSE v \notin {NullValue, Threw}

----------------------------------------------------------------------------
(* Actions *)

\* no string has been handed to parseUrl
NoInput == [file |-> "part_004", lead |-> "", text |-> "", trail |-> "", today |-> <<11, 4>>]

ParserIdle ==
    /\ called = {}
    /\ parsed = NullValue
    /\ valid = FALSE
    /\ info = NullValue
    /\ sources = <<>>
    /\ reparsed = NullValue

Init ==
    /\ call \in Calls
    /\ pc = "start"
    /\ i = 0
    /\ elapsed = 0
    /\ timers = {}
    /\ fired = FALSE
    /\ requests = <<>>
    /\ badJson = FALSE
    /\ result = NullValue
    /\ ret = "running"
    /\ input = NoInput
    /\ ParserIdle
    /\ UiIdle

\* the exported function is called and runs to its first await (or returns)
Call ==
    /\ pc = "start"
    /\ Become(Enter(St))

\* the awaited fetch rejects: a network error, or the transport gave up waiting.
\* The timer of an Invidious instance stays armed (line 164 is skipped).
FetchRejects ==
    /\ AwaitingFetch
    /\ LET tier == TierOf(pc)
       IN  Become(TierFailed(tier, Settle(St, "failed", NullValue), TierCatch(tier, Threw)))

\* the awaited fetch resolves with a response whose status is not a success;
\* fetchFromInvidious has cleared its timer before it looks at the status
FetchRespondsNotOk ==
    /\ AwaitingFetch
    /\ LET tier == TierOf(pc)
           st == [St EXCEPT !.timers = IF tier = "invidious" THEN @ \ {i} ELSE @]
       IN  Become(TierFailed(tier, Settle(st, "failed", NullValue), NullValue))

\* the awaited fetch resolves with a success status: the call goes on to await
\* response.json() (fetchFromInvidious clears its timer first, line 164)
FetchRespondsOk ==
    /\ AwaitingFetch
    /\ LET tier == TierOf(pc)
       IN  Become([St EXCEPT !.pc = tier \o "_json",
                             !.timers = IF tier = "invidious" THEN @ \ {i} ELSE @])

\* response.json() rejects: the body is not JSON
JsonRejects ==
    /\ AwaitingJson
    /\ LET tier == TierOf(pc)
       IN  Become(TierFailed(tier, Settle([St EXCEPT !.badJson = TRUE], "failed", NullValue),
                              TierCatch(tier, Threw)))

\* response.json() resolves with a parsed body
JsonResolves ==
    /\ AwaitingJson
    /\ \E data \in Bodies(TierOf(pc), call.platform) :
         LET tier == TierOf(pc)
             v == TierCatch(tier, TierData(tier, data))
         IN  Become(TierDone(tier,
                     Settle(St, IF Usable(tier, v) THEN "usable" ELSE "unusable", data), v))

\* a time unit passes while an Invidious instance is awaited; the armed timer of
\* the awaited fetch fires before time goes past the timeout
Tick ==
    /\ pc \in {"invidious_fetch", "invidious_json"}
    /\ elapsed < MaxElapsed
    /\ ~(i \in timers /\ elapsed >= InvidiousTimeout)
    /\ elapsed' = elapsed + 1
    /\ UNCHANGED <<call, pc, i, timers, fired, requests, badJson, result, ret>>
    /\ UNCHANGED parserVars
    /\ UNCHANGED uiVars

\* timers that share one controller: whichever timer fires aborts the fetch the call
\* is awaiting, of any instance and of any tier
TimerFiresSharedController ==
    \E j \in timers :
      IF AwaitingFetch
      THEN /\ j = i => elapsed = InvidiousTimeout
           /\ Become(TierFailed(TierOf(pc),
                                Settle([St EXCEPT !.timers = @ \ {j}], "failed", NullValue),
                                TierCatch(TierOf(pc), Threw)))
      ELSE /\ timers' = timers \ {j}
           /\ fired' = TRUE
           /\ UNCHANGED <<call, pc, i, elapsed, requests, badJson, result, ret>>
           /\ UNCHANGED parserVars
           /\ UNCHANGED uiVars

\* setTimeout(() => controller.abort(), 2000) of instance j fires.  Its controller
\* aborts the fetch of instance j if that fetch is still awaited: the fetch rejects and
\* the catch clause goes on to the next instance.  A timer left armed by an iteration
\* that is over aborts nothing; fired keeps that such a timer has fired.
TimerFires ==
    \E j \in timers :
      IF pc = "invidious_fetch" /\ j = i
      THEN /\ elapsed = InvidiousTimeout
           /\ Become(InvidiousNext(Settle([St EXCEPT !.timers = @ \ {j}], "failed", NullValue),
                                   InvidiousCatch(Threw)))
      ELSE /\ timers' = timers \ {j}
           /\ fired' = TRUE
           /\ UNCHANGED <<call, pc, i, elapsed, requests, badJson, result, ret>>
           /\ UNCHANGED parserVars
           /\ UNCHANGED uiVars

\* the caller classifies the canonical URL the TikTok chain returned with its id
ClassifyCanonical ==
    /\ ret = "returned"
    /\ call.platform = "tiktok"
    /\ "canonicalUrl" \in DOMAIN result
    /\ Truthy(result.canonicalUrl)
    /\ Truthy(result.videoId)
    /\ "parseUrl" \notin called
    /\ called' = called \cup {"parseUrl"}
    /\ parsed' = parseUrl(call.file, result.canonicalUrl, call.today)
    /\ UNCHANGED <<input, valid, info, sources, reparsed>>
    /\ UNCHANGED chainVars
    /\ UNCHANGED uiVars

Next ==
    \/ Call
    \/ FetchRejects
    \/ FetchRespondsNotOk
    \/ FetchRespondsOk
    \/ JsonRejects
    \/ JsonResolves
    \/ Tick
    \/ TimerFires
    \/ ClassifyCanonical

Spec == Init /\ [][Next]_vars

----------------------------------------------------------------------------
(* parseUrl and isValidUrl applied to one string *)

Files == {"part_004", "urlParser"}

\* URLs in canonical form: rest is what follows the scheme and the host prefix, hosts
\* the host prefixes the form is served under; source and videoId are the platform
\* and the media id the URL denotes
CanonicalForms ==
    {[rest |-> "instagram.com/reel/ABC123", hosts |-> {"", "www."},
      source |-> "instagram", videoId |-> "ABC123"],
     [rest |-> "instagram.com/p/C_x-9/?igsh=1", hosts |-> {"", "www."},
      source |-> "instagram", videoId |-> "C_x-9"],
     [rest |-> "youtube.com/watch?v=XYZ", hosts |-> {"", "www.", "m."},
      source |-> "youtube", videoId |-> "XYZ"],
     [rest |-> "youtube.com/shorts/XYZ", hosts |-> {"", "www."},
      source |-> "youtube", videoId |-> "XYZ"],
     [rest |-> "youtu.be/XYZ", hosts |-> {""},
      source |-> "youtube", videoId |-> "XYZ"],
     [rest |-> "tiktok.com/@chef.kim/video/7123456789012345678", hosts |-> {"", "www."},
      source |-> "tiktok", videoId |-> "7123456789012345678"],
     [rest |-> "vm.tiktok.com/ZS8abcd/", hosts |-> {""},
      source |-> "tiktok", videoId |-> "ZS8abcd"],
     [rest |-> "vt.tiktok.com/ZS8abcd/", hosts |-> {""},
      source |-> "tiktok", videoId |-> "ZS8abcd"],
     [rest |-> "naver.com/v/12345", hosts |-> {"tv.", "m.tv."},
      source |-> "naver", videoId |-> "12345"],
     [rest |-> "naver.com/clip/678", hosts |-> {"", "m."},
      source |-> "naver", videoId |-> "678"]}

Schemes == {"", "https://", "http://"}

CanonicalUrls ==
    UNION {{[text |-> scheme \o host \o form.rest, source |-> form.source,
             videoId |-> form.videoId] : scheme \in Schemes, host \in form.hosts} :
           form \in CanonicalForms}

\* other strings a user may paste
OtherTexts ==
    {"",
     "https://example.com/foo",
     "kimchi stew",
     "https://instagram.com/someuser",
     "https://www.instagram.com/someuser/",
     "https://www.instagram.com/someuser/p/ABC123/",
     "https://www.instagram.com/reels/ABC123/",
     "https://www.instagram.com/accounts/login/?next=https://www.instagram.com/p/ABC123/",
     "https://instagram.com/Reel/ABC123",
     "https://instagram.com/P/ABC123",
     "HTTPS://WWW.YOUTUBE.COM/SHORTS/XYZ",
     "https://youtu.be/XYZ?ref=instagram.com/p/ABC123",
     "https://tv.naver.com/v/12345?from=youtu.be/XYZ",
     "https://www.youtube.com/watch?v=",
     "https://www.tiktok.com/@chef.kim",
     "https://www.tiktok.com/@chef kim/video/71",
     "https://vm.tiktok.com/",
     "https://tv.naver.com/v/abc"}

\* TikTok URLs: the canonical form for some handles and numeric ids, the short links
\* of both short-link hosts for some codes
TikTokHandles == {"chef.kim", "Chef_KIM-1", "a"}
NumericIds == {"7123456789012345678", "71"}
TikTokCanonicalUrl(handle, id) == "https://www.tiktok.com/@" \o handle \o "/video/" \o id

ShortLinkHosts == {"vm.tiktok.com/", "vt.tiktok.com/"}
ShortCodes == {"ZS8abcd", "ZM6x"}
TikTokShortLink(host, code) == "https://" \o host \o code \o "/"

TikTokTexts ==
    {TikTokCanonicalUrl(handle, id) : handle \in TikTokHandles, id \in NumericIds}
    \cup {TikTokShortLink(host, code) : host \in ShortLinkHosts, code \in ShortCodes}

\* YouTube URLs: the three forms for some ids over [A-Za-z0-9_-]
YouTubeIds == {"XYZ", "dQw4w9WgXcQ", "a-b_C9"}
YouTubeForms == {"youtube.com/watch?v=", "youtu.be/", "youtube.com/shorts/"}

YouTubeTexts == {form \o id : form \in YouTubeForms, id \in YouTubeIds}

Texts == {c.text : c \in CanonicalUrls} \cup OtherTexts \cup TikTokTexts \cup YouTubeTexts

Paddings == {<<"", "">>, <<" ", "">>, <<"", "\n">>, <<"\t ", " \r\n">>}

Inputs ==
    {[file |-> file, lead |-> pad[1], text |-> text, trail |-> pad[2], today |-> today] :
       file \in Files, pad \in Paddings, text \in Texts, today \in OneDate}

\* the string handed to the functions
Url(in) == in.lead \o in.text \o in.trail

\* the chain variables while no chain is called
NoCall == [file |-> "part_004", platform |-> "none", videoId |-> "", url |-> "",
           youtubeApiKey |-> JsNull, apifyApiToken |-> JsNull, today |-> <<11, 4>>]

ChainIdle ==
    /\ call = NoCall
    /\ pc = "none"
    /\ i = 0
    /\ elapsed = 0
    /\ timers = {}
    /\ fired = FALSE
    /\ requests = <<>>
    /\ badJson = FALSE
    /\ result = NullValue
    /\ ret = "running"

ParserInit ==
    /\ input \in Inputs
    /\ ParserIdle
    /\ UiIdle
    /\ ChainIdle

ParseUrl ==
    /\ "parseUrl" \notin called
    /\ called' = called \cup {"parseUrl"}
    /\ parsed' = parseUrl(input.file, Url(input), input.today)
    /\ UNCHANGED <<input, valid, info, sources, reparsed>>
    /\ UNCHANGED chainVars
    /\ UNCHANGED uiVars

IsValidUrl ==
    /\ "isValidUrl" \notin called
    /\ called' = called \cup {"isValidUrl"}
    /\ valid' = isValidUrl(input.file, Url(input), input.today)
    /\ UNCHANGED <<input, parsed, info, sources, reparsed>>
    /\ UNCHANGED chainVars
    /\ UNCHANGED uiVars

\* parseUrl is called on the url of the Classification it returned, and once more on
\* the string it was given, on the same date
ParseUrlAgain ==
    /\ "parseUrl" \in called
    /\ "parseUrlAgain" \notin called
    /\ called' = called \cup {"parseUrlAgain"}
    /\ reparsed' = [ofUrl |-> IF parsed = NullValue THEN NullValue
                              ELSE parseUrl(input.file, parsed.url, input.today),
                    ofInput |-> parseUrl(input.file, Url(input), input.today)]
    /\ UNCHANGED <<input, parsed, valid, info, sources>>
    /\ UNCHANGED chainVars
    /\ UNCHANGED uiVars

ParserNext ==
    \/ ParseUrl
    \/ IsValidUrl
    \/ ParseUrlAgain

ParserSpec == ParserInit /\ [][ParserNext]_vars

----------------------------------------------------------------------------
(* getSourceInfo and getSupportedSources *)

\* the function-valued properties a plain object inherits from Object.prototype,
\* each with the name of the function
ObjectPrototypeFunctions ==
    [constructor |-> "Object", toString |-> "toString", valueOf |-> "valueOf",
     hasOwnProperty |-> "hasOwnProperty", isPrototypeOf |-> "isPrototypeOf",
     toLocaleString |-> "toLocaleString"]

\* URL_PATTERNS[sourceName]: the object's own key, else a property inherited from
\* Object.prototype (a function, or the prototype itself under "__proto__"), else
\* undefined (NullValue here: getSourceInfo only tests it with !config)
RegistryProperty(file, sourceName) ==
    IF \E k \in DOMAIN SourceNames : SourceNames[k] = sourceName
    THEN [name |-> sourceName, label |-> SourceLabel(sourceName)]
    ELSE IF sourceName \in DOMAIN ObjectPrototypeFunctions
    THEN [name |-> ObjectPrototypeFunctions[sourceName], label |-> Undefined]
    ELSE IF sourceName = "__proto__"
    THEN [name |-> Undefined, label |-> Undefined]
    ELSE NullValue

\* lines 493-501: null, or { name: config.name, label: config.label }
getSourceInfo(file, sourceName) == RegistryProperty(file, sourceName)

\* lines 506-511: Object.values(URL_PATTERNS).map(...)
getSupportedSources(file) ==
    [k \in DOMAIN SourceNames |-> [name |-> SourceNames[k], label |-> SourceLabel(SourceNames[k])]]

RegistryNames ==
    {"instagram", "youtube", "tiktok", "naver",
     "Instagram", "YOUTUBE", "TikTok", " naver", "", "facebook", "twitter", "name", "label",
     "pattern", "constructor", "toString", "valueOf", "hasOwnProperty", "__proto__"}

RegistryInputs ==
    {[file |-> file, lead |-> "", text |-> name, trail |-> "", today |-> today] :
       file \in Files, name \in RegistryNames, today \in OneDate}

RegistryInit ==
    /\ input \in RegistryInputs
    /\ ParserIdle
    /\ UiIdle
    /\ ChainIdle

GetSourceInfo ==
    /\ "getSourceInfo" \notin called
    /\ called' = called \cup {"getSourceInfo"}
    /\ info' = getSourceInfo(input.file, input.text)
    /\ UNCHANGED <<input, parsed, valid, sources, reparsed>>
    /\ UNCHANGED chainVars
    /\ UNCHANGED uiVars

GetSupportedSources ==
    /\ "getSupportedSources" \notin called
    /\ called' = called \cup {"getSupportedSources"}
    /\ sources' = getSupportedSources(input.file)
    /\ UNCHANGED <<input, parsed, valid, info, reparsed>>
    /\ UNCHANGED chainVars
    /\ UNCHANGED uiVars

RegistryNext ==
    \/ GetSourceInfo
    \/ GetSupportedSources

RegistrySpec == RegistryInit /\ [][RegistryNext]_vars

----------------------------------------------------------------------------
(* The store (useLocalStorage), the navigation state of App and the        *)
(* creator filter of the favorites page (SavedPage).                       *)
(*   store            the hook's state data: recipes, customCategories,    *)
(*                    shoppingList, settings                               *)
(*   isLoaded         the hook's state isLoaded                            *)
(*   rendered         data and isLoaded as the last render saw them (what  *)
(*                    the closures of its effects read); NullValue before  *)
(*                    the first render                                     *)
(*   effects          the effects of the last render still to run, in      *)
(*                    their order of declaration                           *)
(*   storage          the item of localStorage under STORAGE_KEY           *)
(*   storageLog       the first calls of getItem and setItem, in order,    *)
(*                    each with the item read or written                   *)
(*   currentPage, selectedRecipe   App's state                             *)
(*   selectedCreator  SavedPage's state, null again when the page unmounts *)
(* Category names are written in Latin letters.                            *)

defaultData ==
    [recipes |-> <<>>,
     customCategories |-> <<"hansik", "yangsik", "jungsik", "ilsik", "banchan", "dessert",
                            "eumryo">>,
     shoppingList |-> <<>>,
     settings |-> [coupangPartnersId |-> "AF6320349", youtubeApiKey |-> ""]]

\* localStorage.getItem gives null, a string that is not JSON, or the string
\* JSON.stringify wrote; "denied" is a storage whose every call throws
NoItem == [kind |-> "none"]
CorruptItem == [kind |-> "corrupt"]
DeniedItem == [kind |-> "denied"]

\* the values of the store are strings, booleans, arrays and objects without
\* undefined properties, which JSON.parse gives back from what JSON.stringify wrote
JSONStringify(value) == [kind |-> "json", value |-> value]

JSONParse(item) == IF item.kind = "json" THEN item.value ELSE Threw

\* { ...defaultData, ...parsed }
Merged(defaults, parsedItem) ==
    [k \in DOMAIN defaults \cup DOMAIN parsedItem |->
        IF k \in DOMAIN parsedItem THEN parsedItem[k] ELSE defaults[k]]

\* lines 206-214: what the load effect passes to setData, prev when it passes nothing
LoadedData(prev, item) ==
    IF item.kind = "json" THEN Merged(defaultData, JSONParse(item)) ELSE prev

\* a save effect that writes whether or not the load has been done
ShouldSaveAlways(loaded) == TRUE

\* line 220: if (isLoaded)
ShouldSave(loaded) == loaded

\* r.id === id
IndexOfId(recipes, id) == {k \in DOMAIN recipes : Get(recipes[k], "id") = id}

\* { ...r, categories: categories }
WithCategories(r, categories) ==
    [f \in DOMAIN r \cup {"categories"} |-> IF f = "categories" THEN categories ELSE r[f]]

\* { ...r, isFavorite: !r.isFavorite }
WithFavoriteToggled(r) ==
    [f \in DOMAIN r \cup {"isFavorite"} |->
        IF f = "isFavorite" THEN ~("isFavorite" \in DOMAIN r /\ r.isFavorite) ELSE r[f]]

\* lines 238-249: { ...recipe, id: generateId(), savedAt: ... } put first
addRecipe(prev, recipe, id, savedAt) ==
    [prev EXCEPT !.recipes =
        <<[f \in DOMAIN recipe \cup {"id", "savedAt"} |->
              IF f = "id" THEN id ELSE IF f = "savedAt" THEN savedAt ELSE recipe[f]]>> \o @]

\* lines 265-272
toggleFavorite(prev, id) ==
    [prev EXCEPT !.recipes =
        [k \in DOMAIN @ |-> IF Get(@[k], "id") = id THEN WithFavoriteToggled(@[k]) ELSE @[k]]]

\* an addCategory without the includes test
addCategoryAlways(prev, categoryName) ==
    [prev EXCEPT !.customCategories = Append(@, categoryName)]

\* lines 280-288
addCategory(prev, categoryName) ==
    IF \E k \in DOMAIN prev.customCategories : prev.customCategories[k] = categoryName
    THEN prev
    ELSE [prev EXCEPT !.customCategories = Append(@, categoryName)]

\* a deleteCategory that leaves the recipes alone
deleteCategoryListOnly(prev, categoryName) ==
    [prev EXCEPT !.customCategories = SelectSeq(@, LAMBDA c : c # categoryName)]

\* lines 290-299
deleteCategory(prev, categoryName) ==
    [prev EXCEPT
       !.customCategories = SelectSeq(@, LAMBDA c : c # categoryName),
       !.recipes =
          [k \in DOMAIN @ |->
             WithCategories(@[k],
                            IF "categories" \in DOMAIN @[k]
                            THEN SelectSeq(@[k].categories, LAMBDA c : c # categoryName)
                            ELSE <<>>)]]

\* getCreators, lines 389-405: one entry per creatorHandle, in the order the handles
\* first occur, then sorted by count, largest first (the sort is stable)
CreatorHandles(recipes) ==
    {recipes[k].creatorHandle :
       k \in {j \in DOMAIN recipes : Truthy(Get(recipes[j], "creatorHandle"))}}

RecipesOf(recipes, handle) ==
    {k \in DOMAIN recipes : Get(recipes[k], "creatorHandle") = handle}

CreatorRank(recipes, handle) ==
    1 + Cardinality({g \in CreatorHandles(recipes) :
          \/ Cardinality(RecipesOf(recipes, g)) > Cardinality(RecipesOf(recipes, handle))
          \/ /\ Cardinality(RecipesOf(recipes, g)) = Cardinality(RecipesOf(recipes, handle))
             /\ SetMin(RecipesOf(recipes, g)) < SetMin(RecipesOf(recipes, handle))})

CreatorEntry(recipes, handle) ==
    [handle |-> handle,
     name |-> Or(Get(recipes[SetMin(RecipesOf(recipes, handle))], "creatorName"), handle),
     source |-> Get(recipes[SetMin(RecipesOf(recipes, handle))], "source"),
     count |-> Cardinality(RecipesOf(recipes, handle))]

getCreators(recipes) ==
    [n \in 1..Cardinality(CreatorHandles(recipes)) |->
        CreatorEntry(recipes,
                     CHOOSE h \in CreatorHandles(recipes) : CreatorRank(recipes, h) = n)]

\* SavedPage, line 25
favoriteRecipes(recipes) ==
    SelectSeq(recipes, LAMBDA r : "isFavorite" \in DOMAIN r /\ r.isFavorite)

\* SavedPage, lines 28-31
relevantCreators(recipes, creators) ==
    SelectSeq(creators,
              LAMBDA c : \E k \in DOMAIN favoriteRecipes(recipes) :
                           /\ Truthy(Get(favoriteRecipes(recipes)[k], "creatorHandle"))
                           /\ favoriteRecipes(recipes)[k].creatorHandle = c.handle)

\* SavedPage, lines 34-36
displayedRecipes(recipes, creator) ==
    IF Truthy(creator)
    THEN SelectSeq(favoriteRecipes(recipes), LAMBDA r : Get(r, "creatorHandle") = creator)
    ELSE favoriteRecipes(recipes)

\* SavedPage, lines 84-100: the creators the filter row shows a chip for
CreatorChips(recipes, creators) ==
    IF Len(favoriteRecipes(recipes)) > 0 /\ Len(creators) > 0 THEN creators ELSE <<>>

\* BottomNav, lines 4-10 and 25-28: the items that call onNavigate(item.id)
NavItems == {"home", "categories", "favorites", "settings"}

MaxRecipes == 3
MaxLog == 2

RecipeA ==
    [id |-> "r1", title |-> "Kimchi stew", source |-> "youtube", creatorHandle |-> "@chef.kim",
     creatorName |-> "Chef Kim", isFavorite |-> TRUE, categories |-> <<"hansik", "dessert">>]

RecipeB ==
    [id |-> "r2", title |-> "Gimbap roll", source |-> "tiktok", creatorHandle |-> "@cook",
     isFavorite |-> FALSE, categories |-> <<"hansik">>]

RecipeC == [id |-> "r3", title |-> "Tteokbokki", source |-> "naver", isFavorite |-> TRUE]

NewRecipes == {[title |-> "Bibimbap", source |-> "instagram", creatorHandle |-> "@cook"]}

\* generateId() and new Date().toISOString() of the n-th recipe of the list
NewId(n) == <<"n1", "n2", "n3", "n4">>[n]
NewSavedAt(n) == <<"2026-01-01", "2026-01-02", "2026-01-03", "2026-01-04">>[n]

CategoryNames == {"hansik", "guk"}

StoredItems ==
    {NoItem, CorruptItem, DeniedItem,
     JSONStringify([recipes |-> <<RecipeA, RecipeB>>,
                    customCategories |-> <<"hansik", "dessert", "guk">>,
                    shoppingList |-> <<[id |-> "s1", name |-> "kimchi", recipeId |-> "r1",
                                        completed |-> FALSE]>>,
                    settings |-> [coupangPartnersId |-> "AF6320349",
                                  youtubeApiKey |-> "AIzaKey"]]),
     JSONStringify([recipes |-> <<RecipeC, RecipeB>>])}

Logged(log, op, item) ==
    IF Len(log) < MaxLog THEN Append(log, [op |-> op, item |-> item]) ELSE log

AppInit ==
    /\ storage \in StoredItems
    /\ store = NullValue
    /\ isLoaded = FALSE
    /\ rendered = NullValue
    /\ effects = <<>>
    /\ storageLog = <<>>
    /\ currentPage = "none"
    /\ selectedRecipe = NullValue
    /\ selectedCreator = JsNull
    /\ EmbedIdle
    /\ ChainIdle
    /\ input = NoInput
    /\ ParserIdle

AppUnchanged == UNCHANGED <<chainVars, parserVars, embedVars>>

\* the first render of App: useState(defaultData), useState(false), useState('home'),
\* useState(null); both effects of the hook are to run
Mount ==
    /\ rendered = NullValue
    /\ store' = defaultData
    /\ isLoaded' = FALSE
    /\ rendered' = [data |-> defaultData, isLoaded |-> FALSE]
    /\ effects' = <<"load", "save">>
    /\ currentPage' = "home"
    /\ selectedRecipe' = NullValue
    /\ UNCHANGED <<storage, storageLog, selectedCreator>>
    /\ AppUnchanged

\* lines 205-216
LoadEffect ==
    /\ effects # <<>>
    /\ Head(effects) = "load"
    /\ storageLog' = Logged(storageLog, "getItem", storage)
    /\ store' = LoadedData(store, storage)
    /\ isLoaded' = TRUE
    /\ effects' = Tail(effects)
    /\ UNCHANGED <<rendered, storage, currentPage, selectedRecipe, selectedCreator>>
    /\ AppUnchanged

\* lines 219-227: data and isLoaded are those of the render the effect belongs to
SaveEffect ==
    /\ effects # <<>>
    /\ Head(effects) = "save"
    /\ effects' = Tail(effects)
    /\ IF ShouldSave(rendered.isLoaded)
       THEN /\ storage' = IF storage = DeniedItem THEN storage
                          ELSE JSONStringify(rendered.data)
            /\ storageLog' = Logged(storageLog, "setItem", JSONStringify(rendered.data))
       ELSE UNCHANGED <<storage, storageLog>>
    /\ UNCHANGED <<store, isLoaded, rendered, currentPage, selectedRecipe, selectedCreator>>
    /\ AppUnchanged

\* the hook renders again after its state changed; data or isLoaded differ from the
\* last render's, so the save effect is to run
Rerender ==
    /\ rendered # NullValue
    /\ effects = <<>>
    /\ rendered # [data |-> store, isLoaded |-> isLoaded]
    /\ rendered' = [data |-> store, isLoaded |-> isLoaded]
    /\ effects' = <<"save">>
    /\ UNCHANGED <<store, isLoaded, storage, storageLog, currentPage, selectedRecipe,
                   selectedCreator>>
    /\ AppUnchanged

\* App shows its pages (line 64), and React has run the effects of the last render
Interactive ==
    /\ rendered = [data |-> store, isLoaded |-> isLoaded]
    /\ isLoaded
    /\ effects = <<>>

NavUnchanged == UNCHANGED <<currentPage, selectedRecipe, selectedCreator>>

StoreUnchanged == UNCHANGED <<store, isLoaded, rendered, effects, storage, storageLog>>

\* handleSaveRecipe, lines 53-56
AddRecipe(recipe) ==
    /\ Interactive
    /\ Len(store.recipes) < MaxRecipes
    /\ store' = addRecipe(store, recipe, NewId(Len(store.recipes) + 1),
                          NewSavedAt(Len(store.recipes) + 1))
    /\ UNCHANGED <<isLoaded, rendered, effects, storage, storageLog>>
    /\ NavUnchanged
    /\ AppUnchanged

\* onToggleFavorite of the detail page, which shows selectedRecipe
ToggleFavorite(id) ==
    /\ Interactive
    /\ currentPage = "detail"
    /\ id = Get(selectedRecipe, "id")
    /\ store' = toggleFavorite(store, id)
    /\ UNCHANGED <<isLoaded, rendered, effects, storage, storageLog>>
    /\ NavUnchanged
    /\ AppUnchanged

\* onAddCategory of the categories page
AddCategory(categoryName) ==
    /\ Interactive
    /\ currentPage = "categories"
    /\ store' = addCategory(store, categoryName)
    /\ UNCHANGED <<isLoaded, rendered, effects, storage, storageLog>>
    /\ NavUnchanged
    /\ AppUnchanged

\* onDeleteCategory of the categories page
DeleteCategory(categoryName) ==
    /\ Interactive
    /\ currentPage = "categories"
    /\ store' = deleteCategory(store, categoryName)
    /\ UNCHANGED <<isLoaded, rendered, effects, storage, storageLog>>
    /\ NavUnchanged
    /\ AppUnchanged

\* a navigation that keeps the selected recipe
HandleNavigateKeepsSelection(page) ==
    /\ Interactive
    /\ currentPage' = page
    /\ selectedCreator' = IF page = currentPage THEN selectedCreator ELSE JsNull
    /\ UNCHANGED selectedRecipe
    /\ StoreUnchanged
    /\ AppUnchanged

\* handleRecipeClick, lines 43-46, called by a recipe card of the home page or of the
\* favorites page with the recipe the card shows
HandleRecipeClick(recipe) ==
    /\ Interactive
    /\ selectedRecipe' = recipe
    /\ currentPage' = "detail"
    /\ selectedCreator' = JsNull
    /\ StoreUnchanged
    /\ AppUnchanged

\* handleBackFromDetail, lines 48-51
HandleBackFromDetail ==
    /\ Interactive
    /\ currentPage = "detail"
    /\ selectedRecipe' = NullValue
    /\ currentPage' = "home"
    /\ UNCHANGED selectedCreator
    /\ StoreUnchanged
    /\ AppUnchanged

\* handleNavigate, lines 58-61
HandleNavigate(page) ==
    /\ Interactive
    /\ selectedRecipe' = NullValue
    /\ currentPage' = page
    /\ selectedCreator' = IF page = currentPage THEN selectedCreator ELSE JsNull
    /\ StoreUnchanged
    /\ AppUnchanged

\* onSourceClick, onCategoryClick, onCreatorClick of the categories page, lines 114-125
CategoriesPageClick ==
    /\ Interactive
    /\ currentPage = "categories"
    /\ currentPage' = "home"
    /\ UNCHANGED <<selectedRecipe, selectedCreator>>
    /\ StoreUnchanged
    /\ AppUnchanged

\* SavedPage, lines 88 and 96: a chip of the filter row is clicked
SelectCreator(creator) ==
    /\ Interactive
    /\ currentPage = "favorites"
    /\ selectedCreator' = creator
    /\ UNCHANGED <<currentPage, selectedRecipe>>
    /\ StoreUnchanged
    /\ AppUnchanged

\* the recipes App passes to its pages (none before the first render)
Recipes == IF store = NullValue THEN <<>> ELSE store.recipes

\* the recipes whose card the current page shows
CardsShown ==
    CASE currentPage = "home" -> {Recipes[k] : k \in DOMAIN Recipes}
      [] currentPage = "favorites" ->
           {displayedRecipes(Recipes, selectedCreator)[k] :
              k \in DOMAIN displayedRecipes(Recipes, selectedCreator)}
      [] OTHER -> {}

\* the handles the chips of the filter row call setSelectedCreator with
ChipHandles ==
    {CreatorChips(Recipes, getCreators(Recipes))[k].handle :
       k \in DOMAIN CreatorChips(Recipes, getCreators(Recipes))}

AppNext ==
    \/ Mount
    \/ LoadEffect
    \/ SaveEffect
    \/ Rerender
    \/ \E recipe \in NewRecipes : AddRecipe(recipe)
    \/ \E k \in DOMAIN Recipes : ToggleFavorite(Get(Recipes[k], "id"))
    \/ \E categoryName \in CategoryNames : AddCategory(categoryName)
    \/ \E categoryName \in CategoryNames : DeleteCategory(categoryName)
    \/ \E recipe \in CardsShown : HandleRecipeClick(recipe)
    \/ HandleBackFromDetail
    \/ \E page \in NavItems : HandleNavigate(page)
    \/ CategoriesPageClick
    \/ \E handle \in ChipHandles : SelectCreator(handle)
    \/ (Interactive /\ ChipHandles # {} /\ SelectCreator(JsNull))

AppSpec == AppInit /\ [][AppNext]_vars

----------------------------------------------------------------------------
(* TikTokEmbed: the effect that polls for the embed *)

\* how many runs of the effect are followed
MaxRuns == 3

\* the props of TikTokEmbed: two videos, and a recipe without url and id
EmbedProps ==
    {[url |-> "https://www.tiktok.com/@chef.kim/video/7123456789012345678",
      videoId |-> "7123456789012345678"],
     [url |-> "https://www.tiktok.com/@cook/video/7000000000000000001",
      videoId |-> "7000000000000000001"],
     [url |-> "", videoId |-> ""]}

EmbedInit ==
    /\ ChainIdle
    /\ input = NoInput
    /\ ParserIdle
    /\ AppIdle
    /\ EmbedIdle

EmbedUnchanged == UNCHANGED <<chainVars, parserVars, appVars>>

\* the body of the effect, lines 9-44, for the run number run: nothing when url or
\* videoId is empty (line 9), else setInterval (line 25) and the script element
\* (lines 32-44). checkEmbed changes the document and isLoaded only, which the
\* interval never reads.
RunEffect(props, run) ==
    IF ~Truthy(props.url) \/ ~Truthy(props.videoId)
    THEN /\ intervalId' = 0
         /\ UNCHANGED scriptPresent
    ELSE /\ intervalId' = run
         /\ scriptPresent' = TRUE

\* the component is mounted: useRef(0), line 6, then the effect
EmbedMount(props) ==
    /\ embedProps = NullValue
    /\ runs < MaxRuns
    /\ embedProps' = props
    /\ retryCount' = 0
    /\ runs' = runs + 1
    /\ ticks' = 0
    /\ clearedBy' = "none"
    /\ RunEffect(props, runs + 1)
    /\ EmbedUnchanged

\* a render with another url or videoId (dependencies, line 47): the cleanup of the
\* last run (line 46), then the effect again; the ref keeps its value
EmbedChangeProps(props) ==
    /\ embedProps # NullValue
    /\ props # embedProps
    /\ runs < MaxRuns
    /\ embedProps' = props
    /\ UNCHANGED retryCount
    /\ runs' = runs + 1
    /\ ticks' = 0
    /\ clearedBy' = "none"
    /\ RunEffect(props, runs + 1)
    /\ EmbedUnchanged

\* the callback of setInterval, lines 25-29
EmbedTick ==
    /\ intervalId # 0
    /\ ticks' = ticks + 1
    /\ retryCount' = retryCount + 1
    /\ IF retryCount + 1 > 10
       THEN intervalId' = 0 /\ clearedBy' = "self"
       ELSE UNCHANGED <<intervalId, clearedBy>>
    /\ UNCHANGED <<embedProps, runs, scriptPresent>>
    /\ EmbedUnchanged

\* the component is unmounted: the cleanup of the last run, line 46
EmbedUnmount ==
    /\ embedProps # NullValue
    /\ embedProps' = NullValue
    /\ intervalId' = 0
    /\ clearedBy' = IF intervalId # 0 THEN "cleanup" ELSE clearedBy
    /\ UNCHANGED <<retryCount, runs, ticks, scriptPresent>>
    /\ EmbedUnchanged

EmbedNext ==
    \/ \E props \in EmbedProps : EmbedMount(props)
    \/ \E props \in EmbedProps : EmbedChangeProps(props)
    \/ EmbedTick
    \/ EmbedUnmount

EmbedSpec == EmbedInit /\ [][EmbedNext]_vars

----------------------------------------------------------------------------
(* Properties of the provider chains *)

Returned == ret = "returned"

Requests(tier) == {k \in DOMAIN requests : requests[k].tier = tier}

Over(k) == requests[k].outcome \in {"failed", "unusable"}

\* the order of the tiers of the YouTube chain
TierRank(tier) ==
    CASE tier = "apify" -> 1
      [] tier = "invidious" -> 2
      [] tier = "youtube_api" -> 3
      [] tier = "oembed" -> 4

\* the tiers a call of the YouTube chain may use with the credentials it was given
TierEnabled(tier) ==
    CASE tier = "apify" -> call.file = "part_004" /\ Truthy(call.apifyApiToken)
      [] tier = "youtube_api" -> Truthy(call.youtubeApiKey)
      [] OTHER -> TRUE

\* every request so far failed in transport: rejected, timed out or a non-success status
AllFailedInTransport ==
    /\ requests # <<>>
    /\ ~badJson
    /\ \A k \in DOMAIN requests : requests[k].outcome = "failed"

\* the URL of the media a call is about (lines 80 and 243 build the same URLs)
CallUrl ==
    CASE call.platform = "youtube" -> "https://www.youtube.com/watch?v=" \o call.videoId
      [] call.platform = "instagram" -> "https://www.instagram.com/p/" \o call.videoId \o "/"
      [] call.platform = "tiktok" -> call.url

\* C1: whatever the outcome of each request (rejected fetch, timeout, non-success
\* status, body that is not JSON, body without the expected fields), no exception
\* leaves fetchYouTubeMetadata, fetchInstagramMetadata or fetchTikTokMetadata: a call
\* that is over has returned a value.
C1_NoTierFailureRaised ==
    /\ ret # "raised"
    /\ pc = "done" => ret = "returned"

\* a call that returned after a rejected or refused request, a body that was not JSON
\* and a body whose first item is null
C1_Witness ==
    /\ Returned
    /\ badJson
    /\ \E k \in DOMAIN requests : requests[k].outcome = "failed"
    /\ \E k \in DOMAIN requests :
         requests[k].outcome = "unusable" /\ requests[k].data = Array(NullValue)

\* C2: the value a chain returns is never null.
C2_NeverReturnsNull == Returned => result # NullValue

\* C3: when every request of a chain failed (error, timeout or non-success status),
\* the Metadata returned has source "fallback".
C3_AllFailedGivesFallback ==
    (Returned /\ AllFailedInTransport) => (result # NullValue /\ result.source = "fallback")

\* the call returned without any tier having produced a usable result
EndsInFallback == Returned /\ \A k \in DOMAIN requests : requests[k].outcome # "usable"

\* C4: a Metadata returned by the fallback tier is built from the Classification of
\* the URL alone: title = suggestedTitle, authorName = creatorHandle, empty
\* description, empty or absent thumbnail.
C4_FallbackFromClassification ==
    (EndsInFallback /\ result # NullValue
        /\ parseUrl(call.file, CallUrl, call.today) # NullValue) =>
      LET classification == parseUrl(call.file, CallUrl, call.today)
      IN  /\ result.title = classification.suggestedTitle
          /\ result.authorName = classification.creatorHandle
          /\ result.description = ""
          /\ Get(result, "thumbnail") \in {"", JsNull, Undefined}

C6_CredentialGatedTiersSkipped ==
    /\ ~Truthy(call.apifyApiToken) =>
         /\ Requests("apify") = {}
         /\ pc # "start" =>
              IF call.platform = "youtube"
              THEN requests # <<>> /\ requests[1].tier = "invidious" /\ requests[1].mirror = 1
              ELSE Returned /\ requests = <<>>
    /\ ~Truthy(call.youtubeApiKey) =>
         /\ Requests("youtube_api") = {}
         /\ (call.platform = "youtube" /\ EndsInFallback) =>
              requests[Len(requests)].tier = "oembed"

\* a YouTube call with an empty token and no key went from the mirrors to embed-info
C6_Witness ==
    /\ call.platform = "youtube" /\ call.file = "part_004"
    /\ call.apifyApiToken = "" /\ call.youtubeApiKey = JsNull
    /\ Returned
    /\ Len(requests) = Len(INVIDIOUS_INSTANCES) + 1
    /\ requests[Len(requests)].tier = "oembed"

\* the N-th mirror is the first to answer with a usable body
NthMirrorAnswers(k) ==
    /\ requests[k].tier = "invidious"
    /\ requests[k].outcome = "usable"
    /\ \A j \in Requests("invidious") : j < k => requests[j].outcome = "failed"

\* C7: when the first N-1 mirrors fail and the N-th answers, the YouTube chain returns
\* the N-th mirror's data with source "invidious", and asks neither a later mirror nor
\* a later tier.
C7_MirrorFailover ==
    \A k \in DOMAIN requests :
      NthMirrorAnswers(k) =>
        /\ requests[k].mirror = Cardinality({j \in Requests("invidious") : j <= k})
        /\ k = Len(requests)
        /\ Returned
        /\ result.source = "invidious"
        /\ LET fields == IF requests[k].data.shape = "object"
                         THEN requests[k].data.fields ELSE NoFields
           IN  /\ DOMAIN result = DOMAIN fields \cup {"source"}
               /\ \A f \in DOMAIN fields : f # "source" => result[f] = fields[f]

\* four mirrors failed and the fifth answered with a video
C7_Witness ==
    /\ Len(requests) >= Len(INVIDIOUS_INSTANCES)
    /\ NthMirrorAnswers(Len(requests))
    /\ requests[Len(requests)].mirror = Len(INVIDIOUS_INSTANCES)
    /\ Get(result, "title") = "Kimchi stew"
    /\ call.youtubeApiKey # JsNull

\* C8: no attempt on a mirror keeps the chain waiting beyond its 2-unit timeout.
C8_MirrorBoundedByTimeout ==
    TierOf(pc) = "invidious" => elapsed <= InvidiousTimeout

\* all the mirrors were asked and failed
MirrorsExhausted ==
    /\ Cardinality(Requests("invidious")) = Len(INVIDIOUS_INSTANCES)
    /\ \A k \in Requests("invidious") : requests[k].outcome = "failed"

LastMirror == CHOOSE k \in Requests("invidious") : \A j \in Requests("invidious") : j <= k

\* C9: when all five mirrors fail, no exception is raised and the chain asks its next
\* tier: the official API if a key was supplied, the embed-info endpoint otherwise.
C9_MirrorsExhausted ==
    MirrorsExhausted =>
      /\ ret # "raised"
      /\ Len(requests) > LastMirror
      /\ requests[LastMirror + 1].tier =
           IF Truthy(call.youtubeApiKey) THEN "youtube_api" ELSE "oembed"

\* five mirrors failed in transport and the official API was asked
C9_Witness ==
    /\ MirrorsExhausted
    /\ ~badJson
    /\ Truthy(call.youtubeApiKey)
    /\ requests[Len(requests)].tier = "youtube_api"
    /\ requests[Len(requests)].outcome = "pending"

\* C10: no endpoint is requested twice in one call, and a call issues at most
\* 1 + 5 + 1 + 1 requests.
C10_NoEndpointTwice ==
    /\ \A j, k \in DOMAIN requests :
         j # k => <<requests[j].tier, requests[j].mirror>> # <<requests[k].tier, requests[k].mirror>>
    /\ Len(requests) <= Len(INVIDIOUS_INSTANCES) + 3

\* a call that issued all eight requests
C10_Witness == Len(requests) = Len(INVIDIOUS_INSTANCES) + 3 /\ Returned

\* C11: fallback is strictly sequential: at most one request of a call is in flight,
\* it is the last one issued, the call is suspended on it, and every request issued
\* before it is over (answered, failed or aborted by its timeout).
C11_OneRequestInFlight ==
    /\ \A k \in DOMAIN requests : requests[k].outcome = "pending" => k = Len(requests)
    /\ Cardinality({k \in DOMAIN requests : requests[k].outcome = "pending"}) <= 1
    /\ (requests # <<>> /\ requests[Len(requests)].outcome = "pending") =>
         TierOf(pc) = requests[Len(requests)].tier
    /\ pc = "done" => \A k \in DOMAIN requests : requests[k].outcome # "pending"

\* the eighth request of a call is in flight after seven that are over
C11_Witness ==
    /\ Len(requests) = Len(INVIDIOUS_INSTANCES) + 3
    /\ requests[Len(requests)].outcome = "pending"
    /\ pc = "oembed_json"

\* the source value each scraping tier writes (lines 114, 277, 392)
ScrapedSource(platform) ==
    CASE platform = "youtube" -> "apify_youtube"
      [] platform = "instagram" -> "instagram"
      [] platform = "tiktok" -> "tiktok"

\* C12: a Metadata returned carries a source that identifies the tier that answered:
\* a result no tier answered (the URL-derived one) has a source, and not the source
\* the platform's scraping tier writes.
C12_SourceIdentifiesTier ==
    (EndsInFallback /\ result # NullValue) =>
      /\ "source" \in DOMAIN result
      /\ result.source # ScrapedSource(call.platform)

\* the call returned what its scraping tier made of the scraped item
FromScraping ==
    /\ Returned
    /\ requests # <<>>
    /\ requests[Len(requests)].tier = "apify"
    /\ requests[Len(requests)].outcome = "usable"

\* C13: no title returned from a scraping tier is longer than 100 characters.
C13_ScrapedTitleTruncated == FromScraping => Len(result.title) <= TitleLimit

\* the call returned what the embed-info tier made of the body it received
FromOEmbed ==
    /\ Returned
    /\ call.platform = "youtube"
    /\ requests # <<>>
    /\ requests[Len(requests)].tier = "oembed"
    /\ requests[Len(requests)].outcome = "usable"

\* the body of the last answer, and a field of it as the remote side sent it (null
\* when the body is not an object or the field is absent or empty)
LastBody == requests[Len(requests)].data

RemoteField(name) ==
    IF LastBody.shape = "object" /\ name \in DOMAIN LastBody.fields /\ LastBody.fields[name] # ""
    THEN LastBody.fields[name]
    ELSE JsNull

\* every tier before the embed-info tier that the credentials enable was asked and
\* none of its requests gave a usable answer
EarlierTiersUnusable ==
    \A tier \in {"apify", "invidious", "youtube_api"} :
      TierEnabled(tier) =>
        /\ Requests(tier) # {}
        /\ \A k \in Requests(tier) : Over(k)

Includes(s, part) ==
    \E k \in 1..(Len(s) - Len(part) + 1) : SubSeq(s, k, k + Len(part) - 1) = part

\* the item the scraping service answered with
ScrapedItem == LastBody.item

\* C28: when the TikTok chain returns what the scraping tier made, the Metadata
\* carries a non-empty canonical id, the item's id or else the last path segment of
\* its web video URL, and a canonical URL of that id; when the chain ends in the
\* fallback it carries neither field.
C28_TikTokCanonicalId ==
    call.platform = "tiktok" =>
      /\ FromScraping =>
           /\ Truthy(result.videoId)
           /\ result.videoId \in
                {Get(ScrapedItem, "id"),
                 IF Truthy(Get(ScrapedItem, "webVideoUrl"))
                 THEN LastSegment(Get(ScrapedItem, "webVideoUrl")) ELSE Undefined}
           /\ Truthy(result.canonicalUrl)
           /\ Includes(result.canonicalUrl, result.videoId)
      /\ EndsInFallback =>
           /\ "videoId" \notin DOMAIN result
           /\ "canonicalUrl" \notin DOMAIN result

\* a parsed body with nothing in it
EmptyBody(data) == data \in {[shape |-> "null"], [shape |-> "emptyArray"], Object(NoFields)}

\* C29: a request counts as usable only if it was answered with a success status and
\* a non-empty body: no mirror or scraping-service answer that is an empty object,
\* an empty array or null is used, and after it the chain asks the next tier.
C29_EmptyBodyUnusable ==
    \A k \in DOMAIN requests :
      (requests[k].tier \in {"apify", "invidious"} /\ requests[k].outcome = "usable") =>
        ~EmptyBody(requests[k].data)

\* C30: every non-null result of fetchYouTubeMetadata has the five fields title,
\* authorName, description, thumbnail and source.
C30_YouTubeResultShape ==
    (Returned /\ call.platform = "youtube" /\ result # NullValue) =>
      {"title", "authorName", "description", "thumbnail", "source"} \subseteq DOMAIN result

\* a scraped first item that carries an error field or has no title
ErrorOrUntitled(data) ==
    /\ data # NullValue
    /\ data.shape = "array"
    /\ data.item # NullValue
    /\ \/ Truthy(Get(data.item, "error"))
       \/ ~Truthy(Get(data.item, "title"))

\* C31: in the YouTube chain a scraping-service answer whose first item carries an
\* error field or has no title is never used: the request is over as unusable, the
\* call does not return before asking the first mirror, which is the next request,
\* and the result is not the scraping tier's.
C31_ErrorItemFallsThrough ==
    call.platform = "youtube" =>
      \A k \in Requests("apify") :
        ErrorOrUntitled(requests[k].data) =>
          /\ requests[k].outcome = "unusable"
          /\ Len(requests) > k => (requests[k + 1].tier = "invidious" /\ requests[k + 1].mirror = 1)
          /\ Returned => Len(requests) > k
          /\ (Returned /\ result # NullValue) => result.source # "apify_youtube"

\* the scraping service answered with an item that has a title and an error field,
\* and the call returned what a later tier gave
C31_Witness ==
    /\ call.platform = "youtube"
    /\ Returned
    /\ result # NullValue
    /\ \E k \in Requests("apify") :
         /\ ErrorOrUntitled(requests[k].data)
         /\ Truthy(Get(requests[k].data.item, "title"))
    /\ requests[Len(requests)].outcome = "usable"

\* the requests sent to mirror j
RequestsToMirror(j) ==
    {k \in DOMAIN requests : requests[k].tier = "invidious" /\ requests[k].mirror = j}

\* C40: a step that disarms the timer of mirror j (it fires, or it is cleared) can
\* end only the pending request to mirror j: every other request, to a later mirror
\* or a later tier, is left as it was; and when the request to mirror j is already
\* over, the firing changes nothing of the call (its position, its requests, its
\* result).
C40_TimerAbortsOwnMirror ==
    [][\A j \in timers \ timers' :
         /\ \A k \in DOMAIN requests :
              requests'[k] # requests[k] =>
                (k \in RequestsToMirror(j) /\ requests[k].outcome = "pending")
         /\ (\A k \in RequestsToMirror(j) : requests[k].outcome # "pending") =>
              UNCHANGED <<pc, i, requests, badJson, result, ret>>]_vars

\* a timer fired after the request of its mirror had failed, every other timer
\* having been cleared, and the call returned the answer of a later request
C40_Witness ==
    /\ fired
    /\ timers = {}
    /\ \A k \in RequestsToMirror(1) : requests[k].outcome = "failed"
    /\ Returned
    /\ Len(requests) > 1
    /\ requests[Len(requests)].outcome = "usable"

\* C38: when the TikTok chain returned a canonical URL and a canonical media id,
\* parseUrl of that URL is a Classification of platform tiktok whose videoId is the
\* canonical media id.
C38_CanonicalUrlClassifiesToId ==
    (call.platform = "tiktok" /\ "parseUrl" \in called) =>
      /\ parsed # NullValue
      /\ parsed.source = "tiktok"
      /\ parsed.videoId = result.videoId

----------------------------------------------------------------------------
(* Properties of parseUrl and isValidUrl *)

ParseUrlCalled == "parseUrl" \in called

\* the primary patterns that match a string, by their place in the registry
PatternsMatching(file, s) ==
    {k \in DOMAIN SourceNames : URL_PATTERNS(file, SourceNames[k], s).matched}

\* C14: for every supported-platform URL in canonical form parseUrl returns a
\* Classification with the right platform and the URL's media id, and the videoId of
\* every Classification is non-empty.
C14_CanonicalClassified ==
    ParseUrlCalled =>
      /\ \A c \in CanonicalUrls :
           c.text = input.text =>
             /\ parsed # NullValue
             /\ parsed.source = c.source
             /\ parsed.videoId = c.videoId
      /\ parsed # NullValue => Truthy(parsed.videoId)

\* C15: for a string no primary pattern matches parseUrl returns null and isValidUrl
\* false; isValidUrl is true exactly when parseUrl returns a Classification.
C15_UnmatchedIsNull ==
    /\ (ParseUrlCalled /\ PatternsMatching(input.file, Url(input)) = {}) => parsed = NullValue
    /\ ("isValidUrl" \in called /\ PatternsMatching(input.file, Url(input)) = {}) =>
         valid = FALSE
    /\ called = {"parseUrl", "isValidUrl"} => (valid <=> parsed # NullValue)

\* both functions ran on "https://example.com/foo"
C15_Witness ==
    /\ called = {"parseUrl", "isValidUrl"}
    /\ input.text = "https://example.com/foo"
    /\ parsed = NullValue
    /\ valid = FALSE

\* C16: parseUrl trims its input: a string of white space only gives null, and a
\* string with white space around it gives what the string without it gives, the
\* Classification's url being the string without the white space.
C16_InputTrimmed ==
    ParseUrlCalled =>
      /\ input.text = "" => parsed = NullValue
      /\ parsed = parseUrl(input.file, input.text, input.today)
      /\ parsed # NullValue => parsed.url = input.text

\* a URL with white space on both sides was classified
C16_Witness ==
    /\ ParseUrlCalled
    /\ input.lead = "\t " /\ input.trail = " \r\n"
    /\ input.text = "https://www.youtube.com/shorts/XYZ"
    /\ parsed # NullValue
    /\ parsed.url = "https://www.youtube.com/shorts/XYZ"

\* C17: at most one of the four primary patterns matches a string.
C17_PatternsExclusive == Cardinality(PatternsMatching(input.file, Url(input))) <= 1

\* C18: when primary patterns match the trimmed string, the Classification is that of
\* the earliest of them in the order instagram, youtube, tiktok, naver.
C18_FirstPatternWins ==
    (ParseUrlCalled /\ PatternsMatching(input.file, input.text) # {}) =>
      /\ parsed # NullValue
      /\ parsed.source = SourceNames[SetMin(PatternsMatching(input.file, input.text))]

\* two patterns match a string in which the later platform's URL comes first; the
\* earlier platform wins
C18_Witness ==
    /\ ParseUrlCalled
    /\ input.text = "https://tv.naver.com/v/12345?from=youtu.be/XYZ"
    /\ PatternsMatching(input.file, input.text) = {2, 4}
    /\ parsed # NullValue
    /\ parsed.source = "youtube"
    /\ parsed.videoId = "XYZ"

PostTypeSegments == {"reel", "p"}

\* C19: in an Instagram Classification the creatorHandle is empty when the first path
\* segment after the host is a post-type segment, whatever its letter case; a
\* creatorHandle that is not empty is "@" and that segment, which is then no
\* post-type segment.
C19_PostUrlHasNoHandle ==
    (ParseUrlCalled /\ parsed # NullValue /\ parsed.source = "instagram") =>
      /\ (ProfilePattern(input.text).matched
            /\ ToLower(ProfilePattern(input.text).g1) \in PostTypeSegments) =>
           parsed.creatorHandle = ""
      /\ parsed.creatorHandle # "" =>
           /\ ProfilePattern(input.text).matched
           /\ ToLower(ProfilePattern(input.text).g1) \notin PostTypeSegments
           /\ parsed.creatorHandle = "@" \o ProfilePattern(input.text).g1

\* the string starts with the Instagram host and its first path segment is no
\* post-type segment
IsInstagramProfileUrl(s) ==
    /\ \E scheme \in Schemes, host \in {"", "www."} :
         LitAt(s, 1, scheme \o host \o "instagram.com/")
    /\ ProfilePattern(s).matched
    /\ ToLower(ProfilePattern(s).g1) \notin PostTypeSegments

\* C20: parseUrl returns null for an Instagram URL with no post-type segment directly
\* after the host.
C20_ProfileUrlNotClassified ==
    (ParseUrlCalled /\ IsInstagramProfileUrl(input.text)) => parsed = NullValue

C22_TikTokShortLink ==
    ParseUrlCalled =>
      /\ \A host \in ShortLinkHosts, code \in ShortCodes :
           input.text = TikTokShortLink(host, code) =>
             /\ parsed # NullValue
             /\ parsed.source = "tiktok"
             /\ parsed.videoId = code
             /\ parsed.creatorHandle = ""
      /\ (parsed # NullValue /\ parsed.source = "tiktok" /\ parsed.creatorHandle # "") =>
           URL_PATTERNS(input.file, "tiktok", input.text).g1 # Undefined

\* C23: for an id X the forms youtube.com/watch?v=X, youtu.be/X and
\* youtube.com/shorts/X are all classified as youtube with videoId X and an empty
\* creatorHandle.
C23_YouTubeForms ==
    ParseUrlCalled =>
      \A form \in YouTubeForms, id \in YouTubeIds :
        input.text = form \o id =>
          /\ parsed # NullValue
          /\ parsed.source = "youtube"
          /\ parsed.videoId = id
          /\ parsed.creatorHandle = ""

\* the short form of an id with "-" and "_" was classified
C23_Witness ==
    /\ ParseUrlCalled
    /\ input.text = "youtu.be/a-b_C9"
    /\ parsed # NullValue
    /\ parsed.source = "youtube"
    /\ parsed.videoId = "a-b_C9"

\* C24: isTempTitle of a Classification is true for tiktok and naver and false for
\* youtube and instagram.
C24_TempTitleByPlatform ==
    (ParseUrlCalled /\ parsed # NullValue) =>
      (parsed.isTempTitle <=> parsed.source \in {"tiktok", "naver"})

\* C25: the thumbnail of a youtube Classification is the CDN template with its
\* videoId, the thumbnail of every other Classification is null.
C25_ThumbnailOnlyYouTube ==
    (ParseUrlCalled /\ parsed # NullValue) =>
      parsed.thumbnail =
        IF parsed.source = "youtube"
        THEN "https://img.youtube.com/vi/" \o parsed.videoId \o "/maxresdefault.jpg"
        ELSE JsNull

\* a youtube Classification with its thumbnail
C25_Witness ==
    /\ ParseUrlCalled
    /\ parsed # NullValue
    /\ parsed.source = "youtube"
    /\ parsed.videoId = "dQw4w9WgXcQ"
    /\ parsed.thumbnail = "https://img.youtube.com/vi/dQw4w9WgXcQ/maxresdefault.jpg"

\* C37: for every string whose Classification is not null, parseUrl of the
\* Classification's url returns the same Classification (url, source, label, videoId,
\* creatorHandle, suggestedTitle of the same date, isTempTitle, thumbnail), and a
\* second call on the same string returns what the first call returned.
C37_ParseUrlIdempotent ==
    "parseUrlAgain" \in called =>
      /\ reparsed.ofInput = parsed
      /\ parsed # NullValue => reparsed.ofUrl = parsed

\* a string with white space around a URL whose id has upper-case letters was
\* classified, and its Classification's url classified again
C37_Witness ==
    /\ "parseUrlAgain" \in called
    /\ parsed # NullValue
    /\ parsed.url # Url(input)
    /\ parsed.videoId # ToLower(parsed.videoId)
    /\ reparsed.ofUrl # NullValue
    /\ reparsed.ofUrl.videoId = parsed.videoId

----------------------------------------------------------------------------
(* Properties of the registry functions *)

\* C26: getSourceInfo returns {name, label} of the platform for each of the four
\* registered names and null for every other string; getSupportedSources returns the
\* four platforms in the order instagram, youtube, tiktok, naver.
C26_RegistryLookup ==
    /\ "getSourceInfo" \in called =>
         info = IF input.text \in {"instagram", "youtube", "tiktok", "naver"}
                THEN [name |-> input.text, label |-> SourceLabel(input.text)]
                ELSE NullValue
    /\ "getSupportedSources" \in called =>
         sources = <<[name |-> "instagram", label |-> "Instagram"],
                     [name |-> "youtube", label |-> "YouTube"],
                     [name |-> "tiktok", label |-> "TikTok"],
                     [name |-> "naver", label |-> "Naver"]>>

----------------------------------------------------------------------------
(* Properties of the store, App and the favorites page *)

\* C32: the creator filter of the favorites page shows a chip only for a creator of
\* at least one favorite recipe, so that with any creator selected the list of
\* favorites shown is not empty.
C32_FilterOffersFavoriteCreators ==
    (Interactive /\ currentPage = "favorites") =>
      /\ \A handle \in ChipHandles : displayedRecipes(Recipes, handle) # <<>>
      /\ Truthy(selectedCreator) => displayedRecipes(Recipes, selectedCreator) # <<>>

\* the first call of setItem in the log
FirstWrite ==
    SetMin({k \in DOMAIN storageLog : storageLog[k].op = "setItem"})

\* C33: no setItem comes before the getItem of the load effect, and the first value
\* written still holds what was stored: it is the stored object spread over the
\* defaults, never the defaults alone.
C33_NoWriteBeforeLoad ==
    (\E k \in DOMAIN storageLog : storageLog[k].op = "setItem") =>
      /\ FirstWrite > 1
      /\ storageLog[1].op = "getItem"
      /\ isLoaded
      /\ storageLog[1].item.kind = "json" =>
           storageLog[FirstWrite].item =
             [kind |-> "json",
              value |-> [k \in DOMAIN defaultData |->
                           IF k \in DOMAIN storageLog[1].item.value
                           THEN storageLog[1].item.value[k] ELSE defaultData[k]]]

\* stored recipes were read and then written back, with the defaults for the keys
\* the stored object lacked
C33_Witness ==
    /\ Len(storageLog) = 2
    /\ storageLog[1].op = "getItem"
    /\ storageLog[1].item.kind = "json"
    /\ "settings" \notin DOMAIN storageLog[1].item.value
    /\ storageLog[2].op = "setItem"
    /\ storage.kind = "json"
    /\ storage.value.recipes # <<>>
    /\ storage.value.settings = defaultData.settings

\* a sequence without the element c, the others in their order
Without(seq, c) == SelectSeq(seq, LAMBDA e : e # c)

\* the fields of a recipe other than its categories
OtherFields(r) == [f \in DOMAIN r \ {"categories"} |-> r[f]]

\* C34: after deleteCategory(c), c is in neither customCategories nor the categories
\* of any recipe; the other categories of the list and of every recipe are kept in
\* their order, every other field of every recipe, the shopping list and the
\* settings are unchanged.
C34_DeleteCategoryFrame ==
    [][\A c \in CategoryNames :
         DeleteCategory(c) =>
           /\ \A k \in DOMAIN store'.customCategories : store'.customCategories[k] # c
           /\ store'.customCategories = Without(store.customCategories, c)
           /\ Len(store'.recipes) = Len(store.recipes)
           /\ \A k \in DOMAIN store.recipes :
                /\ "categories" \in DOMAIN store'.recipes[k]
                /\ \A j \in DOMAIN store'.recipes[k].categories :
                     store'.recipes[k].categories[j] # c
                /\ OtherFields(store'.recipes[k]) = OtherFields(store.recipes[k])
                /\ "categories" \in DOMAIN store.recipes[k] =>
                     store'.recipes[k].categories = Without(store.recipes[k].categories, c)
           /\ store'.shoppingList = store.shoppingList
           /\ store'.settings = store.settings
           /\ DOMAIN store' = DOMAIN store]_vars

\* hansik was deleted from a store whose recipes carried it: no recipe has it, a
\* recipe still has its other category, and the shopping list is there
C34_Witness ==
    /\ store # NullValue
    /\ \A k \in DOMAIN store.customCategories : store.customCategories[k] # "hansik"
    /\ \E k \in DOMAIN store.recipes :
         /\ Get(store.recipes[k], "id") = "r1"
         /\ store.recipes[k].categories = <<"dessert">>
    /\ \E k \in DOMAIN store.recipes :
         /\ Get(store.recipes[k], "id") = "r2"
         /\ store.recipes[k].categories = <<>>
    /\ store.shoppingList # <<>>

NoDuplicate(seq) == \A j, k \in DOMAIN seq : seq[j] = seq[k] => j = k

\* C35: customCategories never holds a name twice, and addCategory of a name that is
\* in the list changes nothing at all.
C35_NoDuplicateCategory ==
    [][/\ store' # NullValue => NoDuplicate(store'.customCategories)
       /\ \A c \in CategoryNames :
            (AddCategory(c) /\ \E k \in DOMAIN store.customCategories :
                                 store.customCategories[k] = c)
              => UNCHANGED vars]_vars

\* hansik was deleted and added again: it is the last of the list, once
C35_Witness ==
    /\ store # NullValue
    /\ Len(store.customCategories) > 1
    /\ store.customCategories[Len(store.customCategories)] = "hansik"
    /\ \E k \in DOMAIN store.customCategories : store.customCategories[k] = "guk"

\* C36: currentPage is 'detail' only while selectedRecipe is not null, and every step
\* that leaves the detail page sets selectedRecipe to null.
C36_DetailHasRecipe ==
    [][/\ currentPage' = "detail" => selectedRecipe' # NullValue
       /\ (currentPage = "detail" /\ currentPage' # "detail") => selectedRecipe' = NullValue]_vars

\* a recipe was opened from the home page and its favorite mark toggled on the detail
\* page, which the bottom navigation then left for the settings page
C36_Witness ==
    /\ currentPage = "settings"
    /\ selectedRecipe = NullValue
    /\ \E k \in DOMAIN Recipes :
         /\ Get(Recipes[k], "id") = "r2"
         /\ Recipes[k].isFavorite

----------------------------------------------------------------------------
(* Properties of TikTokEmbed *)

\* C39: every run of the effect has its own retry budget and ends: its interval ticks
\* at most 11 times, and an interval that cleared itself has ticked 11 times, however
\* many ticks the runs before it used.
C39_OwnRetryBudget ==
    /\ ticks <= 11
    /\ clearedBy = "self" => ticks = 11

====
